---------------------------- MODULE Spec2Model ----------------------------
(***************************************************************************)
(* A model of the sqrl SQL generator: the fragment protocol (Sqlizer),     *)
(* the predicate compiler (Eq/Lt families, map and slice form), the        *)
(* And/Or combinators, Alias, Expr, and the statement builders that call   *)
(* them, with the placeholder rewriter applied by a builder's ToSql.       *)
(*                                                                         *)
(* SQL text is a sequence of tokens.  A literal run of characters is one   *)
(* token; a placeholder `?`, a rewritten placeholder `$n`, a decimal       *)
(* number, and a `%c` pair (a percent sign and the character after it) are *)
(* tokens of their own.  Adjacent literal tokens are always merged, so two *)
(* texts are equal as token sequences exactly when they are equal as       *)
(* strings.                                                                *)
(***************************************************************************)
EXTENDS Integers, Sequences, FiniteSets, TLC

VARIABLES
    pred,     \* predicate world: the Eq/Lt-family value under construction
    calls,    \* predicate world: the (column, value) of each Append / map store made on pred
    sub,      \* statement world: the nested SelectBuilder under construction
    depth,    \* statement world: number of SelectBuilders nested in one another in sub
    stmt,     \* statement world: the top-level statement builder
    out       \* the (text, args, err) returned by the last ToSql, or NoOut

vars == <<pred, calls, sub, depth, stmt, out>>

-----------------------------------------------------------------------------
(* Bounds of the model *)

MaxPairs == 2      \* pairs appended to one predicate
MaxDepth == 2      \* SelectBuilders nested in one another below the top-level statement
MaxParts == 2      \* where parts, columns or rows of values added to one builder
MaxMembers == 3    \* members of one And{...} / Or{...}
MaxText == 4       \* tokens of a text handed to the placeholder rewriter
MaxCalls == 3      \* method calls made on one statement builder

-----------------------------------------------------------------------------
(* Text *)

Lit(s) == [k |-> "lit", s |-> s, n |-> 0]
QTok == [k |-> "q", s |-> "?", n |-> 0]
DollarTok(i) == [k |-> "dollar", s |-> "$", n |-> i]
NumTok(i) == [k |-> "num", s |-> "", n |-> i]
PctTok(c) == [k |-> "pct", s |-> c, n |-> 0]

\* string concatenation: adjacent literal runs merge
Cat(a, b) ==
    IF a = <<>> THEN b
    ELSE IF b = <<>> THEN a
    ELSE IF a[Len(a)].k = "lit" /\ b[1].k = "lit"
         THEN SubSeq(a, 1, Len(a) - 1) \o <<Lit(a[Len(a)].s \o b[1].s)>> \o Tail(b)
         ELSE a \o b

T(s) == <<Lit(s)>>

RECURSIVE Join(_, _)
Join(parts, sep) ==
    IF parts = <<>> THEN <<>>
    ELSE IF Len(parts) = 1 THEN parts[1]
    ELSE Cat(Cat(parts[1], sep), Join(Tail(parts), sep))

CountQ(text) == Cardinality({i \in DOMAIN text : text[i].k = "q"})
CountDollar(text) == Cardinality({i \in DOMAIN text : text[i].k = "dollar"})

NoErr == ""
Result(sql, args, err) == [sql |-> sql, args |-> args, err |-> err]

-----------------------------------------------------------------------------
(* Values (Go interface{} values) *)

Nil == [kind |-> "nil"]
IntV(v) == [kind |-> "int", v |-> v]
\* a Go string holding SQL text
StrV(text) == [kind |-> "string", s |-> text]
Bytes(elems) == [kind |-> "slice", elem |-> "byte", elems |-> elems]
IntSlice(elems) == [kind |-> "slice", elem |-> "int", elems |-> elems]
\* a driver.Valuer: Value() returns (val, err)
Valuer(val, err) == [kind |-> "valuer", val |-> val, err |-> err]

\* database/sql/driver.IsValue: nil, []byte, bool, float64, int64, string, time.Time
IsValue(val) ==
    \/ val.kind \in {"nil", "int", "string"}
    \/ val.kind = "slice" /\ val.elem = "byte"

isListType(val) ==
    IF IsValue(val) THEN FALSE
    ELSE val.kind = "slice"

\* hasSqlizer / the type switch `case Sqlizer`: the types with a ToSql method
SqlizerKinds ==
    {"expr", "alias", "select", "and", "or", "part", "wherePart", "sqlizer",
     "Eq", "NotEq", "EqOr", "LikeOr", "ILikeOr", "Lt", "LtOrEq", "Gt", "GtOrEq",
     "EqSlice", "NotEqSlice", "EqOrSlice", "LikeOrSlice", "ILikeOrSlice",
     "LtSlice", "LtOrEqSlice", "GtSlice", "GtOrEqSlice"}

IsSqlizer(val) == val.kind \in SqlizerKinds

hasSqlizer(args) == \E i \in DOMAIN args : IsSqlizer(args[i])

\* Expr(sql, args...)
Expr(sql, args) == [kind |-> "expr", sql |-> sql, args |-> args]

\* Alias(expr, alias, columns...)
Alias(e, alias, columns) ==
    [kind |-> "alias", expr |-> e, alias |-> alias, columns |-> columns]

\* any other implementation of Sqlizer, such as the tests' dummySqlizer:
\* ToSql returns a fixed (sql, args, err)
Sqlizer(sql, args, err) == [kind |-> "sqlizer", sql |-> sql, args |-> args, err |-> err]

columnValue(column, value) == [column |-> column, value |-> value]

\* a map-typed predicate (Eq, NotEq, ..., Lt, ...): m is a function from
\* the keys to the values
MapPred(kind, m) == [kind |-> kind, m |-> m]
\* an ordered predicate (NewEq(), NewLt(), ...): slice of columnValue
SlicePred(kind, slice) == [kind |-> kind, slice |-> slice]

And(c) == [kind |-> "and", c |-> c]
Or(c) == [kind |-> "or", c |-> c]

-----------------------------------------------------------------------------
(* Placeholders *)

\* the placeholder formats Question and Dollar
Formats == {"Question", "Dollar"}

\* Placeholders(count): "?,?,...,?"
RECURSIVE Placeholders(_)
Placeholders(count) ==
    IF count < 1 THEN <<>>
    ELSE IF count = 1 THEN <<QTok>>
    ELSE Cat(<<QTok, Lit(",")>>, Placeholders(count - 1))

\* Dollar.ReplacePlaceholders: the i-th `?` becomes $i
RECURSIVE dollarReplace(_, _)
dollarReplace(text, i) ==
    IF text = <<>> THEN <<>>
    ELSE IF text[1].k = "q"
         THEN <<DollarTok(i)>> \o dollarReplace(Tail(text), i + 1)
         ELSE <<text[1]>> \o dollarReplace(Tail(text), i)

\* PlaceholderFormat.ReplacePlaceholders(sql): returns (string, error)
ReplacePlaceholders(format, text) ==
    IF format = "Dollar" THEN [sql |-> dollarReplace(text, 1), err |-> NoErr]
    ELSE [sql |-> text, err |-> NoErr]

\* fmt.Fprintf(buf, sql) with no operands: sql is read as a format string.
\* "%%" prints "%", a "%" followed by the character c prints "%!c(MISSING)";
\* everything else is copied.
RECURSIVE Fprintf(_)
Fprintf(format) ==
    IF format = <<>> THEN <<>>
    ELSE IF format[1].k = "pct"
         THEN Cat(IF format[1].s = "%" THEN T("%")
                  ELSE T("%!" \o format[1].s \o "(MISSING)"),
                  Fprintf(Tail(format)))
         ELSE Cat(<<format[1]>>, Fprintf(Tail(format)))

-----------------------------------------------------------------------------
(* Builders *)

\* StatementBuilderType{placeholderFormat, runWith}
StatementBuilderType(format, runner) == [placeholderFormat |-> format, runWith |-> runner]

StatementBuilder == StatementBuilderType("Question", "nil")

NewSelectBuilder(b) ==
    [kind |-> "select", placeholderFormat |-> b.placeholderFormat, runWith |-> b.runWith,
     prefixes |-> <<>>, distinct |-> FALSE, columns |-> <<>>, from |-> "",
     joins |-> <<>>, whereParts |-> <<>>, groupBys |-> <<>>, havingParts |-> <<>>,
     orderBys |-> <<>>, limit |-> 0, limitValid |-> FALSE, offset |-> 0,
     offsetValid |-> FALSE, suffixes |-> <<>>, top |-> 0, topValid |-> FALSE]

NewInsertBuilder(b) ==
    [kind |-> "insert", placeholderFormat |-> b.placeholderFormat, runWith |-> b.runWith,
     prefixes |-> <<>>, options |-> <<>>, into |-> "", columns |-> <<>>,
     values |-> <<>>, suffixes |-> <<>>, outputColumns |-> <<>>]

\* newPart(pred, args...) and newWherePart(pred, args...)
newPart(p, args) == [kind |-> "part", pred |-> p, args |-> args]
newWherePart(p, args) == [kind |-> "wherePart", pred |-> p, args |-> args]

-----------------------------------------------------------------------------
(* The fragment protocol: ToSql() (string, []interface{}, error).  An      *)
(* operator named f_g models the part g of the function f; what a call     *)
(* returned is handed on as a parameter.  What a loop hands back carries,  *)
(* in `compiled`, the index of the last element the loop reached.          *)

RECURSIVE ToSql(_)
RECURSIVE expr_replace(_, _, _, _, _)
RECURSIVE appendToSql_loop(_, _, _, _, _, _)
RECURSIVE conj_loop(_, _, _, _)
RECURSIVE EqSlice_loop(_, _, _, _, _, _)
RECURSIVE Eq_loop(_, _, _, _, _, _, _)
RECURSIVE LtSlice_loop(_, _, _, _, _)
RECURSIVE Lt_loop(_, _, _, _, _, _)
RECURSIVE SelectBuilder_build(_)
RECURSIVE insert_row(_, _, _, _)
RECURSIVE insert_rows(_, _, _, _)

\* exprs.AppendToSql(w, sep, args): writes each expr's own sql, the separator
\* before every expr but the first, and appends each expr's own args
RECURSIVE exprs_loop(_, _, _, _, _)
exprs_loop(es, i, w, sep, args) ==
    IF i > Len(es) THEN [w |-> w, args |-> args]
    ELSE exprs_loop(es, i + 1,
                    Cat(IF i > 1 THEN Cat(w, sep) ELSE w, es[i].sql),
                    sep, args \o es[i].args)

exprs_AppendToSql(es, w, sep, args) == exprs_loop(es, 1, w, sep, args)

\* a faulty `case Sqlizer`: the fragment's arguments are not appended
expr_splice_noArgs(lt, pos, i, buf, args, r) ==
    IF r.err # NoErr THEN [sql |-> <<>>, args |-> <<>>, err |-> r.err, compiled |-> i]
    ELSE expr_replace(lt, pos + 1, i + 1, Cat(buf, Fprintf(r.sql)), args)

\* expr.ToSql, the closure's `case Sqlizer`: r is what arg.ToSql() returned
expr_splice(lt, pos, i, buf, args, r) ==
    IF r.err # NoErr THEN [sql |-> <<>>, args |-> <<>>, err |-> r.err, compiled |-> i]
    ELSE expr_replace(lt, pos + 1, i + 1, Cat(buf, Fprintf(r.sql)), args \o r.args)

\* expr.ToSql's walk over the template: replacePlaceholders calls the closure
\* once for each `?` of lt.sql, left to right, with i = 1, 2, ...; text between
\* the placeholders is copied to buf
expr_replace(lt, pos, i, buf, args) ==
    IF pos > Len(lt.sql) THEN [sql |-> buf, args |-> args, err |-> NoErr, compiled |-> i - 1]
    ELSE IF lt.sql[pos].k # "q"
         THEN expr_replace(lt, pos + 1, i, Cat(buf, <<lt.sql[pos]>>), args)
    ELSE IF i > Len(lt.args)
         THEN expr_replace(lt, pos + 1, i + 1, Cat(buf, <<QTok>>), args)
    ELSE IF IsSqlizer(lt.args[i])
         THEN expr_splice(lt, pos, i, buf, args, ToSql(lt.args[i]))
    ELSE expr_replace(lt, pos + 1, i + 1, Cat(buf, <<QTok>>), Append(args, lt.args[i]))

\* expr.ToSql, after replacePlaceholders returned r
expr_return(r) ==
    IF r.err # NoErr THEN Result(<<>>, <<>>, r.err)
    ELSE Result(r.sql, r.args, NoErr)

expr_ToSql(lt) ==
    IF ~hasSqlizer(lt.args) THEN Result(lt.sql, lt.args, NoErr)
    ELSE expr_return(expr_replace(lt, 1, 1, <<>>, <<>>))

\* a faulty appendToSql: the separator is written before every part but
\* the first of the list
appendToSql_part_sepByIndex(parts, i, w, sep, args, wrote, r) ==
    IF r.err # NoErr THEN [w |-> w, args |-> <<>>, err |-> r.err, compiled |-> i]
    ELSE IF r.sql = <<>> THEN appendToSql_loop(parts, i + 1, w, sep, args, wrote)
    ELSE appendToSql_loop(parts, i + 1,
                          Cat(IF i > 1 THEN Cat(w, sep) ELSE w, r.sql),
                          sep, args \o r.args, TRUE)

\* appendToSql, one part: r is what the part's ToSql returned
appendToSql_part(parts, i, w, sep, args, wrote, r) ==
    IF r.err # NoErr THEN [w |-> w, args |-> <<>>, err |-> r.err, compiled |-> i]
    ELSE IF r.sql = <<>> THEN appendToSql_loop(parts, i + 1, w, sep, args, wrote)
    ELSE appendToSql_loop(parts, i + 1,
                          Cat(IF wrote THEN Cat(w, sep) ELSE w, r.sql),
                          sep, args \o r.args, TRUE)

\* appendToSql(parts, w, sep, args): parts with empty text are skipped, the
\* separator is written between two written parts
appendToSql_loop(parts, i, w, sep, args, wrote) ==
    IF i > Len(parts) THEN [w |-> w, args |-> args, err |-> NoErr, compiled |-> Len(parts)]
    ELSE appendToSql_part(parts, i, w, sep, args, wrote, ToSql(parts[i]))

appendToSql(parts, w, sep, args) == appendToSql_loop(parts, 1, w, sep, args, FALSE)

\* part.ToSql
part_ToSql(p) ==
    IF p.pred.kind = "nil" THEN Result(<<>>, <<>>, NoErr)
    ELSE IF IsSqlizer(p.pred) THEN ToSql(p.pred)
    ELSE IF p.pred.kind = "string" THEN Result(p.pred.s, p.args, NoErr)
    ELSE Result(<<>>, <<>>, "expected string or Sqlizer")

\* wherePart.ToSql
wherePart_ToSql(p) ==
    IF p.pred.kind = "nil" THEN Result(<<>>, <<>>, NoErr)
    ELSE IF IsSqlizer(p.pred) THEN ToSql(p.pred)
    ELSE IF p.pred.kind = "string" THEN Result(p.pred.s, p.args, NoErr)
    ELSE Result(<<>>, <<>>, "expected string-keyed map or string")

Strings(ss) == [i \in DOMAIN ss |-> T(ss[i])]

\* a builder's prefixes, written and followed by a space
prefixes_ToSql(b) ==
    IF Len(b.prefixes) > 0
    THEN [w |-> Cat(exprs_AppendToSql(b.prefixes, <<>>, T(" "), <<>>).w, T(" ")),
          args |-> exprs_AppendToSql(b.prefixes, <<>>, T(" "), <<>>).args]
    ELSE [w |-> <<>>, args |-> <<>>]

\* a builder's suffixes, written after w and a space
suffixes_ToSql(b, w, args) ==
    IF Len(b.suffixes) > 0
    THEN exprs_AppendToSql(b.suffixes, Cat(w, T(" ")), T(" "), args)
    ELSE [w |-> w, args |-> args]

\* SelectBuilder.ToSql: a is the text and the arguments after the suffixes
SelectBuilder_assembled(a) == Result(a.w, a.args, NoErr)

\* SelectBuilder.ToSql: ORDER BY, LIMIT, OFFSET and the suffixes, hv being
\* what the having parts gave
SelectBuilder_tail(b, hv) ==
    IF hv.err # NoErr THEN Result(<<>>, hv.args, hv.err)
    ELSE SelectBuilder_assembled(
           suffixes_ToSql(b,
               Cat(Cat(Cat(hv.w,
                           IF Len(b.orderBys) > 0
                           THEN Cat(T(" ORDER BY "), Join(Strings(b.orderBys), T(", ")))
                           ELSE <<>>),
                       IF b.limitValid THEN Cat(T(" LIMIT "), <<NumTok(b.limit)>>) ELSE <<>>),
                   IF b.offsetValid THEN Cat(T(" OFFSET "), <<NumTok(b.offset)>>) ELSE <<>>),
               hv.args))

\* SelectBuilder.ToSql: GROUP BY and HAVING, wh being what the where parts gave
SelectBuilder_having(b, wh, groupBy) ==
    IF wh.err # NoErr THEN Result(<<>>, wh.args, wh.err)
    ELSE SelectBuilder_tail(b,
           IF Len(b.havingParts) > 0
           THEN appendToSql(b.havingParts, Cat(Cat(wh.w, groupBy), T(" HAVING ")),
                            T(" AND "), wh.args)
           ELSE [w |-> Cat(wh.w, groupBy), args |-> wh.args, err |-> NoErr])

\* SelectBuilder.ToSql: FROM, the joins and WHERE, cols being what the
\* columns gave
SelectBuilder_where(b, cols, from) ==
    IF cols.err # NoErr THEN Result(<<>>, cols.args, cols.err)
    ELSE SelectBuilder_having(b,
           IF Len(b.whereParts) > 0
           THEN appendToSql(b.whereParts, Cat(Cat(cols.w, from), T(" WHERE ")),
                            T(" AND "), cols.args)
           ELSE [w |-> Cat(cols.w, from), args |-> cols.args, err |-> NoErr],
           IF Len(b.groupBys) > 0
           THEN Cat(T(" GROUP BY "), Join(Strings(b.groupBys), T(", ")))
           ELSE <<>>)

\* SelectBuilder.ToSql up to, and without, the ReplacePlaceholders call
SelectBuilder_build(b) ==
    IF Len(b.columns) = 0
    THEN Result(<<>>, <<>>, "select statements must have at least one result column")
    ELSE SelectBuilder_where(b,
           appendToSql(b.columns,
                       Cat(Cat(Cat(prefixes_ToSql(b).w, T("SELECT ")),
                               IF b.distinct THEN T("DISTINCT ") ELSE <<>>),
                           IF b.topValid
                           THEN Cat(Cat(T("TOP "), <<NumTok(b.top)>>), T(" ")) ELSE <<>>),
                       T(", "), prefixes_ToSql(b).args),
           Cat(IF b.from # "" THEN Cat(T(" FROM "), T(b.from)) ELSE <<>>,
               IF Len(b.joins) > 0 THEN Cat(T(" "), Join(Strings(b.joins), T(" "))) ELSE <<>>))

\* a faulty last statement: the text is returned as it was assembled
Rewritten_keepText(r, p) == Result(r.sql, r.args, p.err)

\* the last statement of a builder's ToSql: r is the text and the arguments
\* assembled, p what ReplacePlaceholders returned for the text
Rewritten(r, p) == Result(p.sql, r.args, p.err)

\* SelectBuilder.ToSql, r being what the clauses gave
SelectBuilder_rewrite(b, r) ==
    IF r.err # NoErr THEN r
    ELSE Rewritten(r, ReplacePlaceholders(b.placeholderFormat, r.sql))

\* SelectBuilder.ToSql
SelectBuilder_ToSql(b) == SelectBuilder_rewrite(b, SelectBuilder_build(b))

\* SelectBuilder.toSql(replacePlaceholders bool)
SelectBuilder_toSql(b, replace) ==
    IF replace THEN SelectBuilder_ToSql(b) ELSE SelectBuilder_build(b)

\* a faulty newOperators: inEmptyExpr keeps its default in the negated cases
newOperators_emptyDefault(useNotOpr, useLike, insensitiveLike) ==
    IF useNotOpr /\ useLike
    THEN [equalOpr |-> IF insensitiveLike THEN "NOT ILIKE" ELSE "NOT LIKE",
          inOpr |-> "NOT IN", nullOpr |-> "IS NOT", inEmptyExpr |-> "(1=0)"]
    ELSE IF useNotOpr
    THEN [equalOpr |-> "<>", inOpr |-> "NOT IN", nullOpr |-> "IS NOT",
          inEmptyExpr |-> "(1=0)"]
    ELSE IF useLike
    THEN [equalOpr |-> IF insensitiveLike THEN "ILIKE" ELSE "LIKE",
          inOpr |-> "IN", nullOpr |-> "IS", inEmptyExpr |-> "(1=0)"]
    ELSE [equalOpr |-> "=", inOpr |-> "IN", nullOpr |-> "IS", inEmptyExpr |-> "(1=0)"]

\* newOperators(useNotOpr, useLike, insensitiveLike)
newOperators(useNotOpr, useLike, insensitiveLike) ==
    IF useNotOpr /\ useLike
    THEN [equalOpr |-> IF insensitiveLike THEN "NOT ILIKE" ELSE "NOT LIKE",
          inOpr |-> "NOT IN", nullOpr |-> "IS NOT", inEmptyExpr |-> "(1=1)"]
    ELSE IF useNotOpr
    THEN [equalOpr |-> "<>", inOpr |-> "NOT IN", nullOpr |-> "IS NOT",
          inEmptyExpr |-> "(1=1)"]
    ELSE IF useLike
    THEN [equalOpr |-> IF insensitiveLike THEN "ILIKE" ELSE "LIKE",
          inOpr |-> "IN", nullOpr |-> "IS", inEmptyExpr |-> "(1=0)"]
    ELSE [equalOpr |-> "=", inOpr |-> "IN", nullOpr |-> "IS", inEmptyExpr |-> "(1=0)"]

KeyValResult(e, args, err) == [expr |-> e, args |-> args, err |-> err]

\* a faulty keyVal tail: the element loop starts at index 1, so the first
\* element of a list is never bound
keyVal_resolved_offByOne(key, val, useLike, o) ==
    IF val.kind = "nil"
    THEN IF useLike
         THEN KeyValResult(<<>>, <<>>, "cannot use like with a slice or an array")
         ELSE KeyValResult(T(key \o " " \o o.nullOpr \o " NULL"), <<>>, NoErr)
    ELSE IF isListType(val)
    THEN IF useLike
         THEN KeyValResult(<<>>, <<>>, "cannot use like with a slice or an array")
         ELSE IF Len(val.elems) = 0
         THEN KeyValResult(T(o.inEmptyExpr), <<>>, NoErr)
         ELSE KeyValResult(
                Cat(Cat(T(key \o " " \o o.inOpr \o " ("), Placeholders(Len(val.elems))), T(")")),
                Tail(val.elems), NoErr)
    ELSE KeyValResult(Cat(T(key \o " " \o o.equalOpr \o " "), <<QTok>>), <<val>>, NoErr)

\* a keyVal tail whose null case does not look at useLike: a text match
\* against null is written as a null test
keyVal_resolved_likeNull(key, val, useLike, o) ==
    IF val.kind = "nil"
    THEN KeyValResult(T(key \o " " \o o.nullOpr \o " NULL"), <<>>, NoErr)
    ELSE IF isListType(val)
    THEN IF useLike
         THEN KeyValResult(<<>>, <<>>, "cannot use like with a slice or an array")
         ELSE IF Len(val.elems) = 0
         THEN KeyValResult(T(o.inEmptyExpr), <<>>, NoErr)
         ELSE KeyValResult(
                Cat(Cat(T(key \o " " \o o.inOpr \o " ("), Placeholders(Len(val.elems))), T(")")),
                val.elems, NoErr)
    ELSE KeyValResult(Cat(T(key \o " " \o o.equalOpr \o " "), <<QTok>>), <<val>>, NoErr)

\* keyVal, after the type switch: val is the value itself or what the
\* Valuer resolved to
keyVal_resolved(key, val, useLike, o) ==
    IF val.kind = "nil"
    THEN IF useLike
         THEN KeyValResult(<<>>, <<>>, "cannot use like with a slice or an array")
         ELSE KeyValResult(T(key \o " " \o o.nullOpr \o " NULL"), <<>>, NoErr)
    ELSE IF isListType(val)
    THEN IF useLike
         THEN KeyValResult(<<>>, <<>>, "cannot use like with a slice or an array")
         ELSE IF Len(val.elems) = 0
         THEN KeyValResult(T(o.inEmptyExpr), <<>>, NoErr)
         ELSE KeyValResult(
                Cat(Cat(T(key \o " " \o o.inOpr \o " ("), Placeholders(Len(val.elems))), T(")")),
                val.elems, NoErr)
    ELSE KeyValResult(Cat(T(key \o " " \o o.equalOpr \o " "), <<QTok>>), <<val>>, NoErr)

\* keyVal, `case *SelectBuilder`: r is what v.toSql(false) returned
keyVal_select(key, o, r) ==
    IF r.err # NoErr THEN KeyValResult(<<>>, <<>>, r.err)
    ELSE KeyValResult(Cat(Cat(T(key \o " " \o o.inOpr \o " ("), r.sql), T(")")), r.args, NoErr)

\* a faulty keyVal: the Valuer case is missing, the wrapper itself is compared
keyVal_unresolved(key, val, useLike, o) ==
    IF val.kind = "select"
    THEN keyVal_select(key, o, SelectBuilder_toSql(val, FALSE))
    ELSE keyVal_resolved(key, val, useLike, o)

\* a faulty keyVal: the sub-select is compiled by its public ToSql, which
\* rewrites the placeholders in the sub-select's own format
keyVal_rewritten(key, val, useLike, o) ==
    IF val.kind = "select"
    THEN keyVal_select(key, o, SelectBuilder_toSql(val, TRUE))
    ELSE IF val.kind = "valuer"
    THEN IF val.err # NoErr THEN KeyValResult(<<>>, <<>>, val.err)
         ELSE keyVal_resolved(key, val.val, useLike, o)
    ELSE keyVal_resolved(key, val, useLike, o)

\* keyVal(key, val, useLike, o)
keyVal(key, val, useLike, o) ==
    IF val.kind = "select"
    THEN keyVal_select(key, o, SelectBuilder_toSql(val, FALSE))
    ELSE IF val.kind = "valuer"
    THEN IF val.err # NoErr THEN KeyValResult(<<>>, <<>>, val.err)
         ELSE keyVal_resolved(key, val.val, useLike, o)
    ELSE keyVal_resolved(key, val, useLike, o)

\* Eq.toSql / EqSlice.toSql, the end: the clauses are joined
Eq_join(r, useOr) ==
    IF r.err # NoErr THEN Result(<<>>, r.args, r.err)
    ELSE Result(Join(r.exprs, IF useOr THEN T(" OR ") ELSE T(" AND ")), r.args, NoErr)

\* the loop body of EqSlice.toSql: kv is what keyVal returned for pair i
EqSlice_pair(slice, i, exprs, args, useLike, o, kv) ==
    IF kv.err # NoErr THEN [exprs |-> exprs, args |-> args, err |-> kv.err, compiled |-> i]
    ELSE EqSlice_loop(slice, i + 1, Append(exprs, kv.expr), args \o kv.args, useLike, o)

\* the loop of EqSlice.toSql
EqSlice_loop(slice, i, exprs, args, useLike, o) ==
    IF i > Len(slice) THEN [exprs |-> exprs, args |-> args, err |-> NoErr, compiled |-> Len(slice)]
    ELSE EqSlice_pair(slice, i, exprs, args, useLike, o,
                      keyVal(slice[i].column, slice[i].value, useLike, o))

\* EqSlice.toSql(useNotOpr, useOr, useLike, insensitiveLike)
EqSlice_toSql(lt, useNotOpr, useOr, useLike, insensitiveLike) ==
    Eq_join(EqSlice_loop(lt.slice, 1, <<>>, <<>>, useLike,
                         newOperators(useNotOpr, useLike, insensitiveLike)),
            useOr)

\* a faulty loop body of Eq.toSql: the pair's arguments are not appended
Eq_pair_dropArgs(eq, iter, i, exprs, args, useLike, o, kv) ==
    IF kv.err # NoErr THEN [exprs |-> exprs, args |-> args, err |-> kv.err, compiled |-> i]
    ELSE Eq_loop(eq, iter, i + 1, Append(exprs, kv.expr), args, useLike, o)

\* the loop body of Eq.toSql: kv is what keyVal returned for the i-th key
Eq_pair(eq, iter, i, exprs, args, useLike, o, kv) ==
    IF kv.err # NoErr THEN [exprs |-> exprs, args |-> args, err |-> kv.err, compiled |-> i]
    ELSE Eq_loop(eq, iter, i + 1, Append(exprs, kv.expr), args \o kv.args, useLike, o)

\* the loop of Eq.toSql: `for key, val := range eq` visits the keys in the
\* order iter, which the Go runtime chooses
Eq_loop(eq, iter, i, exprs, args, useLike, o) ==
    IF i > Len(iter) THEN [exprs |-> exprs, args |-> args, err |-> NoErr, compiled |-> Len(iter)]
    ELSE Eq_pair(eq, iter, i, exprs, args, useLike, o,
                 keyVal(iter[i], eq.m[iter[i]], useLike, o))

\* Eq.toSql(useNotOpr, useOr, useLike, insensitiveLike), iterating in order iter
Eq_toSql(eq, iter, useNotOpr, useOr, useLike, insensitiveLike) ==
    Eq_join(Eq_loop(eq, iter, 1, <<>>, <<>>, useLike,
                    newOperators(useNotOpr, useLike, insensitiveLike)),
            useOr)

\* opr of Lt.toSql / LtSlice.toSql
ltOpr(opposite, orEq) ==
    (IF opposite THEN ">" ELSE "<") \o (IF orEq THEN "=" ELSE "")

\* a faulty pair of Lt.toSql: the null check is missing, null is bound as an
\* argument
lt_pair_nullBound(key, val0, opr) ==
    IF val0.kind = "valuer" /\ val0.err # NoErr
    THEN KeyValResult(<<>>, <<>>, val0.err)
    ELSE IF isListType(IF val0.kind = "valuer" THEN val0.val ELSE val0)
    THEN KeyValResult(<<>>, <<>>,
                      "cannot use array or slice with less than or greater than operators")
    ELSE KeyValResult(Cat(T(key \o " " \o opr \o " "), <<QTok>>),
                      <<IF val0.kind = "valuer" THEN val0.val ELSE val0>>, NoErr)

\* one pair of Lt.toSql / LtSlice.toSql, after the Valuer switch: val is the
\* value itself or what the Valuer resolved to
lt_resolved(key, val, opr) ==
    IF val.kind = "nil"
    THEN KeyValResult(<<>>, <<>>, "cannot use null with less than or greater than operators")
    ELSE IF isListType(val)
    THEN KeyValResult(<<>>, <<>>,
                      "cannot use array or slice with less than or greater than operators")
    ELSE KeyValResult(Cat(T(key \o " " \o opr \o " "), <<QTok>>), <<val>>, NoErr)

\* one pair of Lt.toSql / LtSlice.toSql: the Valuer switch and the null and
\* list checks
lt_pair(key, val0, opr) ==
    IF val0.kind = "valuer"
    THEN IF val0.err # NoErr THEN KeyValResult(<<>>, <<>>, val0.err)
         ELSE lt_resolved(key, val0.val, opr)
    ELSE lt_resolved(key, val0, opr)

\* Lt.toSql / LtSlice.toSql, the end: the clauses are joined by AND
Lt_join(r) ==
    IF r.err # NoErr THEN Result(<<>>, r.args, r.err)
    ELSE Result(Join(r.exprs, T(" AND ")), r.args, NoErr)

\* the loop body of LtSlice.toSql: kv is what pair i gave
LtSlice_pair(lts, i, exprs, args, opr, kv) ==
    IF kv.err # NoErr THEN [exprs |-> exprs, args |-> args, err |-> kv.err, compiled |-> i]
    ELSE LtSlice_loop(lts, i + 1, Append(exprs, kv.expr), args \o kv.args, opr)

LtSlice_loop(lts, i, exprs, args, opr) ==
    IF i > Len(lts) THEN [exprs |-> exprs, args |-> args, err |-> NoErr, compiled |-> Len(lts)]
    ELSE LtSlice_pair(lts, i, exprs, args, opr, lt_pair(lts[i].column, lts[i].value, opr))

\* LtSlice.toSql(opposite, orEq)
LtSlice_toSql(lt, opposite, orEq) ==
    Lt_join(LtSlice_loop(lt.slice, 1, <<>>, <<>>, ltOpr(opposite, orEq)))

\* the loop body of Lt.toSql: kv is what the i-th key gave
Lt_step(lt, iter, i, exprs, args, opr, kv) ==
    IF kv.err # NoErr THEN [exprs |-> exprs, args |-> args, err |-> kv.err, compiled |-> i]
    ELSE Lt_loop(lt, iter, i + 1, Append(exprs, kv.expr), args \o kv.args, opr)

Lt_loop(lt, iter, i, exprs, args, opr) ==
    IF i > Len(iter) THEN [exprs |-> exprs, args |-> args, err |-> NoErr, compiled |-> Len(iter)]
    ELSE Lt_step(lt, iter, i, exprs, args, opr, lt_pair(iter[i], lt.m[iter[i]], opr))

\* Lt.toSql(opposite, orEq), iterating in order iter
Lt_toSql(lt, iter, opposite, orEq) ==
    Lt_join(Lt_loop(lt, iter, 1, <<>>, <<>>, ltOpr(opposite, orEq)))

\* a faulty loop body of conj.join: a member that fails is skipped
conj_member_skipFailed(c, i, sqlParts, args, r) ==
    IF r.err # NoErr THEN conj_loop(c, i + 1, sqlParts, args)
    ELSE IF r.sql # <<>>
    THEN conj_loop(c, i + 1, Append(sqlParts, r.sql), args \o r.args)
    ELSE conj_loop(c, i + 1, sqlParts, args)

\* a faulty loop body of conj.join: the arguments of a member with empty
\* text are kept
conj_member_keepArgs(c, i, sqlParts, args, r) ==
    IF r.err # NoErr THEN [sqlParts |-> <<>>, args |-> <<>>, err |-> r.err, compiled |-> i]
    ELSE IF r.sql # <<>>
    THEN conj_loop(c, i + 1, Append(sqlParts, r.sql), args \o r.args)
    ELSE conj_loop(c, i + 1, sqlParts, args \o r.args)

\* conj.join, the loop body: r is what the member's ToSql returned
conj_member(c, i, sqlParts, args, r) ==
    IF r.err # NoErr THEN [sqlParts |-> <<>>, args |-> <<>>, err |-> r.err, compiled |-> i]
    ELSE IF r.sql # <<>>
    THEN conj_loop(c, i + 1, Append(sqlParts, r.sql), args \o r.args)
    ELSE conj_loop(c, i + 1, sqlParts, args)

\* conj.join(sep): the loop
conj_loop(c, i, sqlParts, args) ==
    IF i > Len(c) THEN [sqlParts |-> sqlParts, args |-> args, err |-> NoErr, compiled |-> Len(c)]
    ELSE conj_member(c, i, sqlParts, args, ToSql(c[i]))

\* conj.join(sep), after the loop
conj_wrap(r, sep) ==
    IF r.err # NoErr THEN Result(<<>>, <<>>, r.err)
    ELSE IF Len(r.sqlParts) > 0
    THEN Result(Cat(Cat(T("("), Join(r.sqlParts, sep)), T(")")), r.args, NoErr)
    ELSE Result(<<>>, r.args, NoErr)

\* conj.join(sep)
conj_join(c, sep) == conj_wrap(conj_loop(c, 1, <<>>, <<>>), sep)

\* aliasExpr.ToSql, after the type switch: r is what the aliased expression
\* compiled to
aliasExpr_wrap(lt, r) ==
    IF r.err # NoErr THEN r
    ELSE IF Len(lt.columns) > 0
    THEN Result(Cat(Cat(Cat(T("("), r.sql), T(") AS " \o lt.alias \o " (")),
                    Cat(Join(Strings(lt.columns), T(",")), T(")"))),
                r.args, NoErr)
    ELSE Result(Cat(Cat(T("("), r.sql), T(") AS " \o lt.alias)), r.args, NoErr)

\* aliasExpr.ToSql
aliasExpr_ToSql(lt) ==
    aliasExpr_wrap(lt, IF lt.expr.kind = "select"
                       THEN SelectBuilder_toSql(lt.expr, FALSE)
                       ELSE ToSql(lt.expr))

\* a VALUES loop without its `case Sqlizer`: a fragment is bound like any
\* other value
insert_value_bound(row, v, valueStrings, args, r) ==
    insert_row(row, v + 1, Append(valueStrings, <<QTok>>), Append(args, row[v]))

\* InsertBuilder.ToSql, `case Sqlizer` of a value: r is what its ToSql returned
insert_value(row, v, valueStrings, args, r) ==
    IF r.err # NoErr THEN [valueStrings |-> valueStrings, args |-> args, err |-> r.err]
    ELSE insert_row(row, v + 1, Append(valueStrings, r.sql), args \o r.args)

\* InsertBuilder.ToSql: one row of the VALUES loop
insert_row(row, v, valueStrings, args) ==
    IF v > Len(row) THEN [valueStrings |-> valueStrings, args |-> args, err |-> NoErr]
    ELSE IF IsSqlizer(row[v])
    THEN insert_value(row, v, valueStrings, args, ToSql(row[v]))
    ELSE insert_row(row, v + 1, Append(valueStrings, <<QTok>>), Append(args, row[v]))

\* InsertBuilder.ToSql: a row's values are joined and parenthesised
insert_rowDone(values, r, valuesStrings, row) ==
    IF row.err # NoErr
    THEN [valuesStrings |-> valuesStrings, args |-> row.args, err |-> row.err]
    ELSE insert_rows(values, r + 1,
                     Append(valuesStrings,
                            Cat(Cat(T("("), Join(row.valueStrings, T(","))), T(")"))),
                     row.args)

\* InsertBuilder.ToSql: the VALUES loop over the rows
insert_rows(values, r, valuesStrings, args) ==
    IF r > Len(values) THEN [valuesStrings |-> valuesStrings, args |-> args, err |-> NoErr]
    ELSE insert_rowDone(values, r, valuesStrings, insert_row(values[r], 1, <<>>, args))

\* InsertBuilder.ToSql: the text up to and with "VALUES "
insert_head(b) ==
    Cat(Cat(Cat(Cat(Cat(Cat(prefixes_ToSql(b).w, T("INSERT ")),
                            IF Len(b.options) > 0
                            THEN Cat(Join(Strings(b.options), T(" ")), T(" ")) ELSE <<>>),
                        T("INTO " \o b.into \o " ")),
                    IF Len(b.columns) > 0
                    THEN Cat(Cat(T("("), Join(Strings(b.columns), T(","))), T(") "))
                    ELSE <<>>),
                IF Len(b.outputColumns) > 0
                THEN Cat(Cat(T("OUTPUT "), Join(Strings(b.outputColumns), T(", "))), T(" "))
                ELSE <<>>),
        T("VALUES "))

\* InsertBuilder.ToSql: a is the text and the arguments after the suffixes
insert_rewrite(b, a) ==
    Rewritten([args |-> a.args], ReplacePlaceholders(b.placeholderFormat, a.w))

\* InsertBuilder.ToSql, after the VALUES loop gave rows
insert_tail(b, rows) ==
    IF rows.err # NoErr THEN Result(<<>>, rows.args, rows.err)
    ELSE insert_rewrite(b, suffixes_ToSql(b, Cat(insert_head(b),
                                                   Join(rows.valuesStrings, T(","))),
                                          rows.args))

\* InsertBuilder.ToSql
InsertBuilder_ToSql(b) ==
    IF b.into = "" THEN Result(<<>>, <<>>, "insert statements must specify a table")
    ELSE IF Len(b.values) = 0
    THEN Result(<<>>, <<>>, "insert statements must have at least one set of values")
    ELSE insert_tail(b, insert_rows(b.values, 1, <<>>, prefixes_ToSql(b).args))

\* DeleteBuilder{}: the zero value, no placeholder format and no runner
ZeroDeleteBuilder ==
    [kind |-> "delete", placeholderFormat |-> "nil", runWith |-> "nil",
     prefixes |-> <<>>, from |-> "", whereParts |-> <<>>, orderBys |-> <<>>,
     limit |-> 0, offset |-> 0, suffixes |-> <<>>]

\* NewDeleteBuilder(b)
NewDeleteBuilder(b) ==
    [ZeroDeleteBuilder EXCEPT !.placeholderFormat = b.placeholderFormat,
                              !.runWith = b.runWith]

\* a method called through a nil interface value
NilDereference == "runtime error: invalid memory address or nil pointer dereference"

\* DeleteBuilder.ToSql: a is the text and the arguments after the suffixes
delete_rewrite(b, a) ==
    IF b.placeholderFormat = "nil" THEN Result(<<>>, a.args, NilDereference)
    ELSE Rewritten([sql |-> a.w, args |-> a.args],
                   ReplacePlaceholders(b.placeholderFormat, a.w))

\* DeleteBuilder.ToSql: ORDER BY, LIMIT, OFFSET and the suffixes, wh being
\* what the where parts gave
delete_tail(b, wh) ==
    IF wh.err # NoErr THEN Result(<<>>, wh.args, wh.err)
    ELSE delete_rewrite(b,
           suffixes_ToSql(b,
               Cat(Cat(Cat(wh.w,
                           IF Len(b.orderBys) > 0
                           THEN Cat(T(" ORDER BY "), Join(Strings(b.orderBys), T(", ")))
                           ELSE <<>>),
                       IF b.limit > 0 THEN Cat(T(" LIMIT "), <<NumTok(b.limit)>>) ELSE <<>>),
                   IF b.offset > 0 THEN Cat(T(" OFFSET "), <<NumTok(b.offset)>>) ELSE <<>>),
               wh.args))

\* DeleteBuilder.ToSql: head is the text up to and with the table
delete_where(b, head) ==
    delete_tail(b,
        IF Len(b.whereParts) > 0
        THEN appendToSql(b.whereParts, Cat(head, T(" WHERE ")), T(" AND "),
                         prefixes_ToSql(b).args)
        ELSE [w |-> head, args |-> prefixes_ToSql(b).args, err |-> NoErr])

\* a faulty ToSql: the From table is not asked for
DeleteBuilder_ToSql_unchecked(b) ==
    delete_where(b, Cat(Cat(prefixes_ToSql(b).w, T("DELETE FROM ")), T(b.from)))

\* DeleteBuilder.ToSql
DeleteBuilder_ToSql(b) ==
    IF b.from = ""
    THEN Result(<<>>, <<>>, "delete statements must specify a From table")
    ELSE delete_where(b, Cat(Cat(prefixes_ToSql(b).w, T("DELETE FROM ")), T(b.from)))

\* NewUpdateBuilder(b)
NewUpdateBuilder(b) ==
    [kind |-> "update", placeholderFormat |-> b.placeholderFormat, runWith |-> b.runWith,
     prefixes |-> <<>>, table |-> "", setClauses |-> <<>>, whereParts |-> <<>>,
     orderBys |-> <<>>, limit |-> 0, limitValid |-> FALSE, offset |-> 0,
     offsetValid |-> FALSE, suffixes |-> <<>>]

\* UpdateBuilder.ToSql: one Set clause, "column = ?" with the value as its
\* argument, or "column = " and the text of a value that is an expression
update_set(c) ==
    IF IsSqlizer(c.value)
    THEN [sql |-> Cat(T(c.column \o " = "), expr_ToSql(c.value).sql),
          args |-> expr_ToSql(c.value).args, err |-> expr_ToSql(c.value).err]
    ELSE [sql |-> Cat(T(c.column \o " = "), <<QTok>>), args |-> <<c.value>>,
          err |-> NoErr]

\* UpdateBuilder.ToSql: the Set clauses from the i-th on
RECURSIVE update_sets(_, _, _, _)
update_sets(clauses, i, setSqls, args) ==
    IF i > Len(clauses) THEN [setSqls |-> setSqls, args |-> args, err |-> NoErr]
    ELSE IF update_set(clauses[i]).err # NoErr
    THEN [setSqls |-> setSqls, args |-> args, err |-> update_set(clauses[i]).err]
    ELSE update_sets(clauses, i + 1, Append(setSqls, update_set(clauses[i]).sql),
                     args \o update_set(clauses[i]).args)

\* UpdateBuilder.ToSql: a is the text and the arguments after the suffixes
update_rewrite(b, a) ==
    Rewritten([sql |-> a.w, args |-> a.args],
              ReplacePlaceholders(b.placeholderFormat, a.w))

\* UpdateBuilder.ToSql: ORDER BY, LIMIT, OFFSET and the suffixes, wh being
\* what the where parts gave
update_tail(b, wh) ==
    IF wh.err # NoErr THEN Result(<<>>, wh.args, wh.err)
    ELSE update_rewrite(b,
           suffixes_ToSql(b,
               Cat(Cat(Cat(wh.w,
                           IF Len(b.orderBys) > 0
                           THEN Cat(T(" ORDER BY "), Join(Strings(b.orderBys), T(", ")))
                           ELSE <<>>),
                       IF b.limitValid THEN Cat(T(" LIMIT "), <<NumTok(b.limit)>>) ELSE <<>>),
                   IF b.offsetValid THEN Cat(T(" OFFSET "), <<NumTok(b.offset)>>) ELSE <<>>),
               wh.args))

\* UpdateBuilder.ToSql: WHERE, sets being what the Set clauses gave
update_where(b, sets) ==
    IF sets.err # NoErr THEN Result(<<>>, sets.args, sets.err)
    ELSE update_tail(b,
           IF Len(b.whereParts) > 0
           THEN appendToSql(b.whereParts,
                            Cat(Cat(Cat(Cat(prefixes_ToSql(b).w, T("UPDATE " \o b.table)),
                                        T(" SET ")),
                                    Join(sets.setSqls, T(", "))),
                                T(" WHERE ")),
                            T(" AND "), sets.args)
           ELSE [w |-> Cat(Cat(Cat(prefixes_ToSql(b).w, T("UPDATE " \o b.table)),
                               T(" SET ")),
                           Join(sets.setSqls, T(", "))),
                 args |-> sets.args, err |-> NoErr])

\* UpdateBuilder.ToSql
UpdateBuilder_ToSql(b) ==
    IF b.table = "" THEN Result(<<>>, <<>>, "update statements must specify a table")
    ELSE IF Len(b.setClauses) = 0
    THEN Result(<<>>, <<>>, "update statements must have at least one Set clause")
    ELSE update_where(b, update_sets(b.setClauses, 1, <<>>, prefixes_ToSql(b).args))

\* the order in which `range` visits a map held inside another fragment
Perms(S) ==
    {f \in [1..Cardinality(S) -> S] : \A i, j \in 1..Cardinality(S) : f[i] = f[j] => i = j}

MapIter(m) == CHOOSE f \in Perms(DOMAIN m) : TRUE

\* ToSql of a map predicate, the runtime iterating in order iter
MapPred_ToSql(v, iter) ==
    CASE v.kind = "Eq" -> Eq_toSql(v, iter, FALSE, FALSE, FALSE, FALSE)
      [] v.kind = "NotEq" -> Eq_toSql(v, iter, TRUE, FALSE, FALSE, FALSE)
      [] v.kind = "EqOr" -> Eq_toSql(v, iter, FALSE, TRUE, FALSE, FALSE)
      [] v.kind = "LikeOr" -> Eq_toSql(v, iter, FALSE, TRUE, TRUE, FALSE)
      [] v.kind = "ILikeOr" -> Eq_toSql(v, iter, FALSE, TRUE, TRUE, TRUE)
      [] v.kind = "Lt" -> Lt_toSql(v, iter, FALSE, FALSE)
      [] v.kind = "LtOrEq" -> Lt_toSql(v, iter, FALSE, TRUE)
      [] v.kind = "Gt" -> Lt_toSql(v, iter, TRUE, FALSE)
      [] v.kind = "GtOrEq" -> Lt_toSql(v, iter, TRUE, TRUE)

\* ToSql of an ordered predicate
SlicePred_ToSql(v) ==
    CASE v.kind = "EqSlice" -> EqSlice_toSql(v, FALSE, FALSE, FALSE, FALSE)
      [] v.kind = "NotEqSlice" -> EqSlice_toSql(v, TRUE, FALSE, FALSE, FALSE)
      [] v.kind = "EqOrSlice" -> EqSlice_toSql(v, FALSE, TRUE, FALSE, FALSE)
      [] v.kind = "LikeOrSlice" -> EqSlice_toSql(v, FALSE, TRUE, TRUE, FALSE)
      [] v.kind = "ILikeOrSlice" -> EqSlice_toSql(v, FALSE, TRUE, TRUE, TRUE)
      [] v.kind = "LtSlice" -> LtSlice_toSql(v, FALSE, FALSE)
      [] v.kind = "LtOrEqSlice" -> LtSlice_toSql(v, FALSE, TRUE)
      [] v.kind = "GtSlice" -> LtSlice_toSql(v, TRUE, FALSE)
      [] v.kind = "GtOrEqSlice" -> LtSlice_toSql(v, TRUE, TRUE)

MapKinds == {"Eq", "NotEq", "EqOr", "LikeOr", "ILikeOr", "Lt", "LtOrEq", "Gt", "GtOrEq"}
SliceKinds == {"EqSlice", "NotEqSlice", "EqOrSlice", "LikeOrSlice", "ILikeOrSlice",
               "LtSlice", "LtOrEqSlice", "GtSlice", "GtOrEqSlice"}

\* the dynamic dispatch of Sqlizer.ToSql
ToSql(v) ==
    CASE v.kind = "expr" -> expr_ToSql(v)
      [] v.kind = "alias" -> aliasExpr_ToSql(v)
      [] v.kind = "select" -> SelectBuilder_ToSql(v)
      [] v.kind = "insert" -> InsertBuilder_ToSql(v)
      [] v.kind = "delete" -> DeleteBuilder_ToSql(v)
      [] v.kind = "update" -> UpdateBuilder_ToSql(v)
      [] v.kind = "and" -> conj_join(v.c, T(" AND "))
      [] v.kind = "or" -> conj_join(v.c, T(" OR "))
      [] v.kind = "part" -> part_ToSql(v)
      [] v.kind = "wherePart" -> wherePart_ToSql(v)
      [] v.kind = "sqlizer" -> Result(v.sql, v.args, v.err)
      [] v.kind \in MapKinds -> MapPred_ToSql(v, MapIter(v.m))
      [] v.kind \in SliceKinds -> SlicePred_ToSql(v)

-----------------------------------------------------------------------------
(* Builder methods *)

\* a faulty Append: the pair is put in front of the slice
Slice_Prepend(lt, column, value) ==
    [lt EXCEPT !.slice = <<columnValue(column, value)>> \o lt.slice]

\* EqSlice.Append / LtSlice.Append (and the wrappers of the embedding types)
Slice_Append(lt, column, value) ==
    [lt EXCEPT !.slice = Append(lt.slice, columnValue(column, value))]

\* EqSlice.Len / LtSlice.Len
Slice_Len(lt) == Len(lt.slice)

\* eq[column] = value on a map predicate
Map_Store(eq, column, value) ==
    [eq EXCEPT !.m = [k \in DOMAIN eq.m \cup {column} |->
                        IF k = column THEN value ELSE eq.m[k]]]

EmptyMap == [k \in {} |-> Nil]

\* SelectBuilder.Columns(columns...)
SelectBuilder_Columns(b, columns) ==
    [b EXCEPT !.columns = b.columns \o [i \in DOMAIN columns |-> newPart(StrV(T(columns[i])), <<>>)]]

\* SelectBuilder.From(from)
SelectBuilder_From(b, from) == [b EXCEPT !.from = from]

\* a faulty Where: the part is put in front of the earlier parts
SelectBuilder_Where_prepend(b, p, args) ==
    [b EXCEPT !.whereParts = <<newWherePart(p, args)>> \o @]

\* SelectBuilder.Where(pred, args...)
SelectBuilder_Where(b, p, args) ==
    [b EXCEPT !.whereParts = Append(b.whereParts, newWherePart(p, args))]

\* a PlaceholderFormat that hands back a fresh builder in the format f,
\* keeping only the result columns of b
SelectBuilder_PlaceholderFormat_fresh(b, f) ==
    [NewSelectBuilder(StatementBuilderType(f, b.runWith)) EXCEPT !.columns = b.columns]

\* SelectBuilder.PlaceholderFormat(f)
SelectBuilder_PlaceholderFormat(b, f) == [b EXCEPT !.placeholderFormat = f]

\* SelectBuilder.Column(column, args...)
SelectBuilder_Column(b, column, args) ==
    [b EXCEPT !.columns = Append(b.columns, newPart(column, args))]

\* SelectBuilder.Prefix(sql, args...)
SelectBuilder_Prefix(b, sql, args) == [b EXCEPT !.prefixes = Append(@, Expr(sql, args))]

\* SelectBuilder.Distinct()
SelectBuilder_Distinct(b) == [b EXCEPT !.distinct = TRUE]

\* SelectBuilder.JoinClause(join)
SelectBuilder_JoinClause(b, join) == [b EXCEPT !.joins = Append(@, join)]

\* SelectBuilder.Join(join)
SelectBuilder_Join(b, join) == SelectBuilder_JoinClause(b, "JOIN " \o join)

\* SelectBuilder.GroupBy(groupBys...)
SelectBuilder_GroupBy(b, groupBys) == [b EXCEPT !.groupBys = @ \o groupBys]

\* SelectBuilder.Having(pred, rest...)
SelectBuilder_Having(b, p, rest) ==
    [b EXCEPT !.havingParts = Append(@, newWherePart(p, rest))]

\* SelectBuilder.OrderBy(orderBys...)
SelectBuilder_OrderBy(b, orderBys) == [b EXCEPT !.orderBys = @ \o orderBys]

\* a faulty Limit: a limit of 0 is taken as no limit
SelectBuilder_Limit_zeroUnset(b, limit) ==
    [b EXCEPT !.limit = limit, !.limitValid = limit # 0]

\* SelectBuilder.Limit(limit)
SelectBuilder_Limit(b, limit) == [b EXCEPT !.limit = limit, !.limitValid = TRUE]

\* SelectBuilder.Offset(offset)
SelectBuilder_Offset(b, offset) == [b EXCEPT !.offset = offset, !.offsetValid = TRUE]

\* SelectBuilder.Suffix(sql, args...)
SelectBuilder_Suffix(b, sql, args) == [b EXCEPT !.suffixes = Append(@, Expr(sql, args))]

\* SelectBuilder.Top(top)
SelectBuilder_Top(b, top) == [b EXCEPT !.top = top, !.topValid = TRUE]

\* InsertBuilder.Into(into)
InsertBuilder_Into(b, into) == [b EXCEPT !.into = into]

\* InsertBuilder.Values(values...)
InsertBuilder_Values(b, values) == [b EXCEPT !.values = Append(b.values, values)]

\* InsertBuilder.PlaceholderFormat(f)
InsertBuilder_PlaceholderFormat(b, f) == [b EXCEPT !.placeholderFormat = f]

\* InsertBuilder.Prefix(sql, args...)
InsertBuilder_Prefix(b, sql, args) == [b EXCEPT !.prefixes = Append(@, Expr(sql, args))]

\* InsertBuilder.Columns(columns...)
InsertBuilder_Columns(b, columns) == [b EXCEPT !.columns = @ \o columns]

\* InsertBuilder.Suffix(sql, args...)
InsertBuilder_Suffix(b, sql, args) == [b EXCEPT !.suffixes = Append(@, Expr(sql, args))]

\* DeleteBuilder.Prefix(sql, args...)
DeleteBuilder_Prefix(b, sql, args) == [b EXCEPT !.prefixes = Append(@, Expr(sql, args))]

\* DeleteBuilder.From(from)
DeleteBuilder_From(b, from) == [b EXCEPT !.from = from]

\* DeleteBuilder.Where(pred, args...)
DeleteBuilder_Where(b, p, args) ==
    [b EXCEPT !.whereParts = Append(b.whereParts, newWherePart(p, args))]

\* DeleteBuilder.OrderBy(orderBys...)
DeleteBuilder_OrderBy(b, orderBys) == [b EXCEPT !.orderBys = @ \o orderBys]

\* DeleteBuilder.Limit(limit)
DeleteBuilder_Limit(b, limit) == [b EXCEPT !.limit = limit]

\* DeleteBuilder.Offset(offset)
DeleteBuilder_Offset(b, offset) == [b EXCEPT !.offset = offset]

\* DeleteBuilder.Suffix(sql, args...)
DeleteBuilder_Suffix(b, sql, args) == [b EXCEPT !.suffixes = Append(@, Expr(sql, args))]

\* StatementBuilderType.Delete(from): return DeleteBuilder{}
StatementBuilderType_Delete(b, from) == ZeroDeleteBuilder

\* Delete(from): StatementBuilder.Delete(from)
Delete(from) == StatementBuilderType_Delete(StatementBuilder, from)

\* a Set clause of an UpdateBuilder
setClause(column, value) == [column |-> column, value |-> value]

\* UpdateBuilder.Prefix(sql, args...)
UpdateBuilder_Prefix(b, sql, args) == [b EXCEPT !.prefixes = Append(@, Expr(sql, args))]

\* UpdateBuilder.Table(table)
UpdateBuilder_Table(b, table) == [b EXCEPT !.table = table]

\* UpdateBuilder.Set(column, value)
UpdateBuilder_Set(b, column, value) ==
    [b EXCEPT !.setClauses = Append(@, setClause(column, value))]

\* UpdateBuilder.Where(pred, args...)
UpdateBuilder_Where(b, p, args) ==
    [b EXCEPT !.whereParts = Append(b.whereParts, newWherePart(p, args))]

\* UpdateBuilder.OrderBy(orderBys...)
UpdateBuilder_OrderBy(b, orderBys) == [b EXCEPT !.orderBys = @ \o orderBys]

\* UpdateBuilder.Limit(limit)
UpdateBuilder_Limit(b, limit) == [b EXCEPT !.limit = limit, !.limitValid = TRUE]

\* UpdateBuilder.Offset(offset)
UpdateBuilder_Offset(b, offset) == [b EXCEPT !.offset = offset, !.offsetValid = TRUE]

\* UpdateBuilder.Suffix(sql, args...)
UpdateBuilder_Suffix(b, sql, args) == [b EXCEPT !.suffixes = Append(@, Expr(sql, args))]

\* StatementBuilderType.Update(table) / Update(table)
Update(table) == UpdateBuilder_Table(NewUpdateBuilder(StatementBuilder), table)

\* StatementBuilderType.Insert(into) / Insert(into)
Insert(into) == InsertBuilder_Into(NewInsertBuilder(StatementBuilder), into)

\* StatementBuilderType.Select(columns...) / Select(columns...)
Select(columns) == SelectBuilder_Columns(NewSelectBuilder(StatementBuilder), columns)

-----------------------------------------------------------------------------
(* The predicate world: a predicate is constructed, pairs are added, ToSql *)
(* is called.                                                              *)

NoOut == [op |-> "none"]
ToSqlOut(res, iter) == [op |-> "ToSql", res |-> res, iter |-> iter]
FragToSqlOut(f, res) == [op |-> "FragToSql", frag |-> f, res |-> res]
StmtToSqlOut(res) == [op |-> "StmtToSql", res |-> res]

Columns == {"id", "name"}

\* a sub-select that compiles, carrying the Dollar format and one argument
SubSel ==
    SelectBuilder_PlaceholderFormat(
        SelectBuilder_Where(SelectBuilder_From(Select(<<"bbb">>), "aaa"),
                            StrV(<<Lit("bbb = "), QTok>>), <<IntV(9)>>),
        "Dollar")

\* a sub-select that fails to compile: no result column
BadSel == SelectBuilder_From(Select(<<>>), "aaa")

PredValues ==
    {Nil, IntV(1), Bytes(<<>>), Bytes(<<7, 8>>), IntSlice(<<>>), IntSlice(<<4, 5>>),
     Valuer(Nil, NoErr), Valuer(IntV(3), NoErr), Valuer(Nil, "valuer failed"),
     SubSel, BadSel}

NewPredicate(kind) ==
    /\ pred' = IF kind \in MapKinds THEN MapPred(kind, EmptyMap) ELSE SlicePred(kind, <<>>)
    /\ calls' = <<>>
    /\ out' = NoOut
    /\ UNCHANGED <<sub, depth, stmt>>

PredAppend(column, value) ==
    /\ pred.kind \in SliceKinds
    /\ Len(calls) < MaxPairs
    /\ pred' = Slice_Append(pred, column, value)
    /\ calls' = Append(calls, columnValue(column, value))
    /\ out' = NoOut
    /\ UNCHANGED <<sub, depth, stmt>>

PredStore(column, value) ==
    /\ pred.kind \in MapKinds
    /\ Len(calls) < MaxPairs
    /\ pred' = Map_Store(pred, column, value)
    /\ calls' = Append(calls, columnValue(column, value))
    /\ out' = NoOut
    /\ UNCHANGED <<sub, depth, stmt>>

PredToSql ==
    /\ out = NoOut
    /\ \/ /\ pred.kind \in SliceKinds
          /\ out' = ToSqlOut(SlicePred_ToSql(pred), <<>>)
       \/ /\ pred.kind \in MapKinds
          /\ \E iter \in Perms(DOMAIN pred.m) :
                out' = ToSqlOut(MapPred_ToSql(pred, iter), iter)
    /\ UNCHANGED <<pred, calls, sub, depth, stmt>>

InitPred ==
    /\ pred = SlicePred("EqSlice", <<>>)
    /\ calls = <<>>
    /\ sub = Nil
    /\ depth = 0
    /\ stmt = Nil
    /\ out = NoOut

NextPred ==
    \/ \E kind \in MapKinds \cup SliceKinds : NewPredicate(kind)
    \/ \E column \in Columns, value \in PredValues : PredAppend(column, value)
    \/ \E column \in Columns, value \in PredValues : PredStore(column, value)
    \/ PredToSql

SpecPred == InitPred /\ [][NextPred]_vars

-----------------------------------------------------------------------------
(* Vocabulary of the predicate properties.  The expected text of a clause  *)
(* is written out here token by token, independently of keyVal and         *)
(* newOperators.                                                           *)

PositiveEq == {"Eq", "EqOr", "EqSlice", "EqOrSlice"}
NegatedEq == {"NotEq", "NotEqSlice"}
\* Eq, NotEq, EqOr and their slice variants
EqFamily == PositiveEq \cup NegatedEq
LikeFamily == {"LikeOr", "ILikeOr", "LikeOrSlice", "ILikeOrSlice"}
OrderFamily == {"Lt", "LtOrEq", "Gt", "GtOrEq",
                "LtSlice", "LtOrEqSlice", "GtSlice", "GtOrEqSlice"}
OrJoined == {"EqOr", "EqOrSlice"} \cup LikeFamily

Joiner(kind) == IF kind \in OrJoined THEN T(" OR ") ELSE T(" AND ")

\* the comparison operator an ordering predicate stands for
OrderOpr(kind) ==
    CASE kind \in {"Lt", "LtSlice"} -> "<"
      [] kind \in {"LtOrEq", "LtOrEqSlice"} -> "<="
      [] kind \in {"Gt", "GtSlice"} -> ">"
      [] kind \in {"GtOrEq", "GtOrEqSlice"} -> ">="

\* what the code compiles one pair of a predicate of this kind to
PairClause(kind, cv) ==
    IF kind \in OrderFamily
    THEN lt_pair(cv.column, cv.value, OrderOpr(kind))
    ELSE keyVal(cv.column, cv.value, kind \in LikeFamily,
                newOperators(kind \in NegatedEq, kind \in LikeFamily,
                             kind \in {"ILikeOr", "ILikeOrSlice"}))

\* the pairs of pred in the order in which the last ToSql visited them
Visited ==
    IF pred.kind \in SliceKinds THEN pred.slice
    ELSE [i \in DOMAIN out.iter |-> columnValue(out.iter[i], pred.m[out.iter[i]])]

RECURSIVE Flatten(_)
Flatten(seqs) == IF seqs = <<>> THEN <<>> ELSE seqs[1] \o Flatten(Tail(seqs))

\* the clauses joined, and their arguments concatenated, in this order
Joined(kind, clauses) ==
    [sql |-> Join([i \in DOMAIN clauses |-> clauses[i].expr], Joiner(kind)),
     args |-> Flatten([i \in DOMAIN clauses |-> clauses[i].args])]

Compiled == out.op = "ToSql" /\ out.res.err = NoErr

\* ?,?,...,? with n placeholders
QList(n) == [i \in 1..(2 * n - 1) |-> IF i % 2 = 1 THEN QTok ELSE Lit(",")]

\* a Go array or slice
IsArrayOrSlice(v) == v.kind = "slice"
\* a Go array or slice that database/sql/driver does not take as one value
IsCollection(v) == v.kind = "slice" /\ v.elem # "byte"

InOpr(kind) == IF kind \in NegatedEq THEN " NOT IN (" ELSE " IN ("

InClause(kind, cv) ==
    [expr |-> <<Lit(cv.column \o InOpr(kind))>> \o QList(Len(cv.value.elems)) \o <<Lit(")")>>,
     args |-> cv.value.elems]

EmptyClause(kind) ==
    [expr |-> <<Lit(IF kind \in NegatedEq THEN "(1=1)" ELSE "(1=0)")>>, args |-> <<>>]

IsNull(v) == v.kind = "nil" \/ (v.kind = "valuer" /\ v.err = NoErr /\ v.val.kind = "nil")
\* a driver.Valuer whose Value() is a non-null scalar
IsScalarValuer(v) ==
    /\ v.kind = "valuer"
    /\ v.err = NoErr
    /\ v.val.kind # "nil"
    /\ ~IsCollection(v.val)

NullClause(kind, cv) ==
    [expr |-> <<Lit(cv.column \o (IF kind \in NegatedEq THEN " IS NOT NULL" ELSE " IS NULL"))>>,
     args |-> <<>>]

EqualsClause(cv) == [expr |-> <<Lit(cv.column \o " = "), QTok>>, args |-> <<cv.value.val>>]
DiffersClause(cv) == [expr |-> <<Lit(cv.column \o " <> "), QTok>>, args |-> <<cv.value.val>>]

EqAndNotEq == {"Eq", "NotEq", "EqSlice", "NotEqSlice"}

\* C7, as first stated: in Eq and NotEq (map and slice), a pair whose value
\* is null or a Valuer resolving to null compiles to `column IS NULL` (Eq)
\* or `column IS NOT NULL` (NotEq) with no argument, and a Valuer resolving
\* to a non-null scalar compiles to `column = ?` with the resolved scalar as
\* the argument.
C7_ValuerAlwaysEquals ==
    (Compiled /\ pred.kind \in EqAndNotEq) =>
        LET want == [i \in DOMAIN Visited |->
                        IF IsNull(Visited[i].value) THEN NullClause(pred.kind, Visited[i])
                        ELSE IF IsScalarValuer(Visited[i].value) THEN EqualsClause(Visited[i])
                        ELSE PairClause(pred.kind, Visited[i])]
        IN /\ out.res.sql = Joined(pred.kind, want).sql
           /\ out.res.args = Joined(pred.kind, want).args

\* C7, amended: the same, except that a Valuer resolving to a non-null
\* scalar compiles to `column = ?` in Eq and to `column <> ?` in NotEq.
C7_NullAndValuer ==
    (Compiled /\ pred.kind \in EqAndNotEq) =>
        LET want == [i \in DOMAIN Visited |->
                        IF IsNull(Visited[i].value) THEN NullClause(pred.kind, Visited[i])
                        ELSE IF IsScalarValuer(Visited[i].value)
                        THEN IF pred.kind \in NegatedEq
                             THEN DiffersClause(Visited[i]) ELSE EqualsClause(Visited[i])
                        ELSE PairClause(pred.kind, Visited[i])]
        IN /\ out.res.sql = Joined(pred.kind, want).sql
           /\ out.res.args = Joined(pred.kind, want).args

C7_Witness ==
    /\ Compiled
    /\ pred.kind = "EqSlice"
    /\ calls = <<columnValue("name", Valuer(Nil, NoErr)), columnValue("id", Valuer(IntV(3), NoErr))>>
    /\ out.res.args = <<IntV(3)>>

\* null directly or through a Valuer, or a collection
IsNullOrCollection(v) ==
    \/ IsNull(v)
    \/ IsCollection(v)
    \/ (v.kind = "valuer" /\ v.err = NoErr /\ IsCollection(v.val))

\* a value an ordering predicate binds as it is: here an integer or a []byte
IsPlainScalar(v) == v.kind = "int" \/ (v.kind = "slice" /\ v.elem = "byte")

OrderClause(kind, cv) ==
    [expr |-> <<Lit(cv.column \o " " \o OrderOpr(kind) \o " "), QTok>>, args |-> <<cv.value>>]

\* C8: in every ordering predicate (Lt, LtOrEq, Gt, GtOrEq, map and slice),
\* if any pair's value is null, directly or through a Valuer, or is an array
\* or slice, ToSql returns an error and empty text; a []byte is a scalar:
\* a predicate of integers and []byte values compiles, each pair to
\* `column <opr> ?` with the value as its argument.
C8_OrderingRejects ==
    (out.op = "ToSql" /\ pred.kind \in OrderFamily) =>
        /\ (\E i \in DOMAIN Visited : IsNullOrCollection(Visited[i].value)) =>
               (out.res.err # NoErr /\ out.res.sql = <<>>)
        /\ (\A i \in DOMAIN Visited : IsPlainScalar(Visited[i].value)) =>
               LET want == [i \in DOMAIN Visited |-> OrderClause(pred.kind, Visited[i])]
               IN /\ out.res.err = NoErr
                  /\ out.res.sql = Join([i \in DOMAIN want |-> want[i].expr], T(" AND "))
                  /\ out.res.args = Flatten([i \in DOMAIN want |-> want[i].args])

C8_Witness ==
    /\ out.op = "ToSql"
    /\ pred.kind = "GtOrEqSlice"
    /\ calls = <<columnValue("id", Bytes(<<7, 8>>)), columnValue("name", Valuer(Nil, NoErr))>>
    /\ out.res.err = "cannot use null with less than or greater than operators"

NoColumnsErr == "select statements must have at least one result column"

\* the text of SubSel with its placeholders left as `?`
SubSelText == <<Lit("SELECT bbb FROM aaa WHERE bbb = "), QTok>>

SubSelClause(kind, cv) ==
    [expr |-> Cat(Cat(T(cv.column \o InOpr(kind)), SubSelText), T(")")),
     args |-> <<IntV(9)>>]

\* C9: in the equality family a pair whose value is a SelectBuilder compiles
\* to `column IN (<sub-select text>)` (NOT IN when negated), the sub-select
\* text keeps its `?` placeholders, the sub-select's arguments sit at the
\* pair's position, and the compile error of the first failing sub-select
\* is the predicate's error.
C9_SubSelectIn ==
    (out.op = "ToSql" /\ pred.kind \in EqFamily \cup LikeFamily) =>
        /\ out.res.err = NoErr =>
               LET want == [i \in DOMAIN Visited |->
                               IF Visited[i].value = SubSel
                               THEN SubSelClause(pred.kind, Visited[i])
                               ELSE PairClause(pred.kind, Visited[i])]
               IN /\ out.res.sql = Joined(pred.kind, want).sql
                  /\ out.res.args = Joined(pred.kind, want).args
        /\ \A i \in DOMAIN Visited :
               (/\ Visited[i].value = BadSel
                /\ \A j \in 1..(i - 1) : PairClause(pred.kind, Visited[j]).err = NoErr)
               => (out.res.err = NoColumnsErr /\ out.res.sql = <<>>)

C9_Witness ==
    /\ Compiled
    /\ pred.kind = "NotEqSlice"
    /\ calls = <<columnValue("name", IntV(1)), columnValue("id", SubSel)>>
    /\ out.res.args = <<IntV(1), IntV(9)>>
    /\ CountQ(out.res.sql) = 2

\* C10: the ordered predicates are append-only: Len() is the number of
\* Append calls made, and a successful ToSql emits one clause per call, in
\* the order of the calls, with the arguments in the same order.
C10_AppendOrder ==
    pred.kind \in SliceKinds =>
        /\ Slice_Len(pred) = Len(calls)
        /\ Compiled =>
               LET want == [i \in DOMAIN calls |-> PairClause(pred.kind, calls[i])]
               IN /\ out.res.sql = Joined(pred.kind, want).sql
                  /\ out.res.args = Joined(pred.kind, want).args

C10_Witness ==
    /\ Compiled
    /\ pred.kind = "EqOrSlice"
    /\ Slice_Len(pred) = 2
    /\ calls = <<columnValue("name", IntSlice(<<4, 5>>)), columnValue("id", IntV(1))>>
    /\ out.res.args = <<4, 5, IntV(1)>>

\* the ordered variant of a map predicate type
SliceVariant(kind) == kind \o "Slice"

\* the pairs of the map m, in the order iter of its keys
InOrder(m, iter) == [i \in DOMAIN iter |-> columnValue(iter[i], m[iter[i]])]

\* the ordered predicate of the same family holding the pairs of the map
\* predicate p, appended in the order iter
AsSlice(p, iter) == SlicePred(SliceVariant(p.kind), InOrder(p.m, iter))

\* C11: a map predicate and the ordered predicate of the same family compile
\* to the same result modulo ordering: whatever order the map is ranged
\* over, the ordered predicate holding the same pairs in that order returns
\* the same text, arguments and error (so for one pair they are identical,
\* and for several the clauses, their arguments and the joiner are the
\* same); and one fails exactly when the other does, in every order.
C11_MapAsSlice ==
    (out.op = "ToSql" /\ pred.kind \in MapKinds) =>
        /\ out.res = SlicePred_ToSql(AsSlice(pred, out.iter))
        /\ \A p \in Perms(DOMAIN pred.m) :
              /\ MapPred_ToSql(pred, p) = SlicePred_ToSql(AsSlice(pred, p))
              /\ (SlicePred_ToSql(AsSlice(pred, p)).err = NoErr) <=> (out.res.err = NoErr)

C11_Witness ==
    /\ Compiled
    /\ pred.kind = "NotEq"
    /\ out.iter = <<"name", "id">>
    /\ pred.m["name"] = IntSlice(<<4, 5>>)
    /\ pred.m["id"] = Valuer(IntV(3), NoErr)
    /\ out.res.args = <<4, 5, IntV(3)>>

-----------------------------------------------------------------------------
(* The conjunction world: an And{...} or Or{...} is written member by      *)
(* member and compiled.                                                    *)

\* a fragment that fails to compile
FailingSqlizer == Sqlizer(<<>>, <<>>, "boom")

\* an ordering predicate that fails to compile: null
NullLt == SlicePred("LtSlice", <<columnValue("n", Nil)>>)

ConjMembers ==
    {Expr(<<Lit("a > "), QTok>>, <<IntV(15)>>),
     Expr(<<Lit("b < "), QTok>>, <<IntV(20)>>),
     MapPred("Eq", EmptyMap),
     Expr(<<>>, <<IntV(1)>>),
     Or(<<Expr(<<Lit("c = "), QTok>>, <<IntV(3)>>), Expr(<<Lit("d = "), QTok>>, <<IntV(4)>>)>>),
     And(<<>>),
     BadSel,
     FailingSqlizer,
     NullLt}

\* And{} / Or{}
NewConj(kind) ==
    /\ pred' = IF kind = "and" THEN And(<<>>) ELSE Or(<<>>)
    /\ calls' = <<>>
    /\ out' = NoOut
    /\ UNCHANGED <<sub, depth, stmt>>

\* one more member in the composite literal
ConjAppend(member) ==
    /\ Len(pred.c) < MaxMembers
    /\ pred' = [pred EXCEPT !.c = Append(@, member)]
    /\ out' = NoOut
    /\ UNCHANGED <<calls, sub, depth, stmt>>

ConjToSql ==
    /\ out = NoOut
    /\ out' = ToSqlOut(ToSql(pred), <<>>)
    /\ UNCHANGED <<pred, calls, sub, depth, stmt>>

InitConj ==
    /\ pred = And(<<>>)
    /\ calls = <<>>
    /\ sub = Nil
    /\ depth = 0
    /\ stmt = Nil
    /\ out = NoOut

NextConj ==
    \/ \E kind \in {"and", "or"} : NewConj(kind)
    \/ \E member \in ConjMembers : ConjAppend(member)
    \/ ConjToSql

SpecConj == InitConj /\ [][NextConj]_vars

\* what each member of the conjunction compiles to, in sequence order
MemberResults == [i \in DOMAIN pred.c |-> ToSql(pred.c[i])]

HasText(r) == r.sql # <<>>

\* the results of the members whose text is not empty, in sequence order
Kept == SelectSeq(MemberResults, HasText)

ConjSep == IF pred.kind = "and" THEN T(" AND ") ELSE T(" OR ")

AllMembersCompile == \A i \in DOMAIN pred.c : MemberResults[i].err = NoErr

\* C12: And{...} / Or{...} whose members all compile returns the non-empty
\* member texts in sequence order, joined by ` AND ` / ` OR ` and wrapped in
\* one pair of parentheses, with the arguments of those members in the same
\* order; members with empty text are left out, arguments included; when no
\* member has text, the text and the arguments are empty.
C12_ConjJoin ==
    (out.op = "ToSql" /\ AllMembersCompile) =>
        /\ out.res.err = NoErr
        /\ out.res.sql = IF Kept = <<>> THEN <<>>
                         ELSE Cat(Cat(T("("), Join([i \in DOMAIN Kept |-> Kept[i].sql], ConjSep)),
                                  T(")"))
        /\ out.res.args = Flatten([i \in DOMAIN Kept |-> Kept[i].args])

C12_Witness ==
    /\ out.op = "ToSql"
    /\ pred = And(<<Expr(<<Lit("a > "), QTok>>, <<IntV(15)>>),
                    Expr(<<>>, <<IntV(1)>>),
                    Expr(<<Lit("b < "), QTok>>, <<IntV(20)>>)>>)
    /\ out.res = Result(<<Lit("(a > "), QTok, Lit(" AND b < "), QTok, Lit(")")>>,
                        <<IntV(15), IntV(20)>>, NoErr)

-----------------------------------------------------------------------------
(* The composite world: a fragment that embeds other fragments (And, Or,   *)
(* an Expr with fragment items, an ordered predicate, a SelectBuilder with *)
(* where parts) is given its elements one by one, some of which fail to    *)
(* compile, and is compiled.  calls holds the elements in the order given. *)

CompositeKinds == {"and", "or", "expr", "EqSlice", "LtSlice", "select"}
PairKinds == {"EqSlice", "LtSlice"}

\* fragments given as members, items and where parts
ElementFragments ==
    {Expr(<<Lit("a > "), QTok>>, <<IntV(15)>>), FailingSqlizer, BadSel, NullLt}

\* values given to the pairs of a predicate
ElementValues ==
    {IntV(1), BadSel, Valuer(Nil, "valuer failed"), Nil, IntSlice(<<4, 5>>)}

Elements(kind) == IF kind \in PairKinds THEN ElementValues ELSE ElementFragments

NewComposite(kind) ==
    /\ pred' = CASE kind = "and" -> And(<<>>)
                 [] kind = "or" -> Or(<<>>)
                 [] kind = "expr" -> Expr(<<>>, <<>>)
                 [] kind \in PairKinds -> SlicePred(kind, <<>>)
                 [] kind = "select" -> SelectBuilder_From(Select(<<"a">>), "t")
    /\ calls' = <<>>
    /\ out' = NoOut
    /\ UNCHANGED <<sub, depth, stmt>>

\* the composite with one more element: a member of And / Or, a `(?)` and
\* its item in an Expr, Append("id", e) on a predicate, Where(e) on a builder
WithElement(c, e) ==
    CASE c.kind \in {"and", "or"} -> [c EXCEPT !.c = Append(@, e)]
      [] c.kind = "expr" ->
            Expr(Cat(c.sql, IF c.sql = <<>> THEN <<Lit("("), QTok, Lit(")")>>
                            ELSE <<Lit(" OR ("), QTok, Lit(")")>>),
                 Append(c.args, e))
      [] c.kind \in PairKinds -> Slice_Append(c, "id", e)
      [] c.kind = "select" -> SelectBuilder_Where(c, e, <<>>)

AddElement(e) ==
    /\ Len(calls) < MaxMembers
    /\ pred' = WithElement(pred, e)
    /\ calls' = Append(calls, e)
    /\ out' = NoOut
    /\ UNCHANGED <<sub, depth, stmt>>

CompositeToSql ==
    /\ out = NoOut
    /\ out' = ToSqlOut(ToSql(pred), <<>>)
    /\ UNCHANGED <<pred, calls, sub, depth, stmt>>

NextComposite ==
    \/ \E kind \in CompositeKinds : NewComposite(kind)
    \/ \E e \in Elements(pred.kind) : AddElement(e)
    \/ CompositeToSql

SpecComposite == InitConj /\ [][NextComposite]_vars

\* the error, if any, that compiling the i-th element on its own gives
ElementErr(i) ==
    IF pred.kind \in PairKinds
    THEN PairClause(pred.kind, columnValue("id", calls[i])).err
    ELSE ToSql(calls[i]).err

Failing == {i \in DOMAIN calls : ElementErr(i) # NoErr}

FirstFailing == CHOOSE i \in Failing : \A j \in Failing : i <= j

\* the index of the last element the composite's loop reached
LastCompiled ==
    CASE pred.kind \in {"and", "or"} -> conj_loop(pred.c, 1, <<>>, <<>>).compiled
      [] pred.kind = "expr" -> expr_replace(pred, 1, 1, <<>>, <<>>).compiled
      [] pred.kind = "EqSlice" ->
            EqSlice_loop(pred.slice, 1, <<>>, <<>>, FALSE,
                         newOperators(FALSE, FALSE, FALSE)).compiled
      [] pred.kind = "LtSlice" ->
            LtSlice_loop(pred.slice, 1, <<>>, <<>>, ltOpr(FALSE, FALSE)).compiled
      [] pred.kind = "select" ->
            appendToSql_loop(pred.whereParts, 1, <<>>, T(" AND "), <<>>, FALSE).compiled

\* C13: when an element of a composite (a member of And / Or, a fragment item
\* of an Expr, a pair of a predicate, a where part) fails to compile, the
\* composite's ToSql returns the error of the first failing element as it
\* is, returns empty text, and reaches no element after the failing one.
C13_FailFast ==
    (out.op = "ToSql" /\ Failing # {}) =>
        /\ out.res.err = ElementErr(FirstFailing)
        /\ out.res.sql = <<>>
        /\ LastCompiled = FirstFailing

C13_Witness ==
    /\ out.op = "ToSql"
    /\ pred.kind = "or"
    /\ calls = <<Expr(<<Lit("a > "), QTok>>, <<IntV(15)>>), FailingSqlizer, BadSel>>
    /\ out.res = Result(<<>>, <<>>, "boom")

-----------------------------------------------------------------------------
(* The rewriter world: an assembled text, with the arguments gathered for  *)
(* it, is handed to ReplacePlaceholders as the last statement of a         *)
(* builder's ToSql does; what comes back can be handed to it again.  pred  *)
(* holds the text, calls the arguments.                                    *)

TextToks == {QTok, Lit("x = "), Lit(" AND ")}

\* the texts of at most MaxText tokens
Texts == UNION {[1..n -> TextToks] : n \in 0..MaxText}

ArgLists == {<<>>, <<IntV(1)>>, <<IntV(1), IntV(2)>>}

RewriteOut(format, text, res) == [op |-> "Rewrite", format |-> format, text |-> text, res |-> res]

Rewrite(format) ==
    /\ out' = RewriteOut(format, pred.s,
                         Rewritten(Result(pred.s, calls, NoErr),
                                   ReplacePlaceholders(format, pred.s)))
    /\ pred' = StrV(out'.res.sql)
    /\ UNCHANGED <<calls, sub, depth, stmt>>

InitRewrite ==
    /\ pred \in {StrV(t) : t \in Texts}
    /\ calls \in ArgLists
    /\ sub = Nil
    /\ depth = 0
    /\ stmt = Nil
    /\ out = NoOut

NextRewrite == \E format \in Formats : Rewrite(format)

SpecRewrite == InitRewrite /\ [][NextRewrite]_vars

\* how many `?` the text has up to and including position j
QsUpTo(text, j) == Cardinality({k \in 1..j : text[k].k = "q"})

\* the text with its i-th `?` replaced by $i
Numbered(text) ==
    [j \in DOMAIN text |-> IF text[j].k = "q" THEN DollarTok(QsUpTo(text, j)) ELSE text[j]]

\* C14: the rewriter is given the text alone.  In the Question format it
\* returns the text unchanged, so that rewriting again changes nothing; in
\* the Dollar format it replaces the i-th `?`, counted from 1 and from the
\* left, by $i, however many arguments go with the text; the arguments are
\* returned as they were.
C14_Rewriter ==
    out.op = "Rewrite" =>
        /\ out.res.err = NoErr
        /\ out.res.args = calls
        /\ out.format = "Question" => (out.res.sql = out.text /\ pred.s = out.text)
        /\ out.format = "Dollar" => out.res.sql = Numbered(out.text)

C14_Witness ==
    /\ out.op = "Rewrite"
    /\ out.format = "Dollar"
    /\ calls = <<>>
    /\ out.text = <<Lit("x = "), QTok, Lit(" AND "), QTok>>
    /\ out.res.sql = <<Lit("x = "), DollarTok(1), Lit(" AND "), DollarTok(2)>>

-----------------------------------------------------------------------------
(* The builder world: a statement builder is created, its methods are      *)
(* called in any order, and it is compiled.  stmt holds the builder, calls *)
(* the method calls made on it, in call order.                             *)

\* a method call: s is a string operand, t a text operand with its
\* arguments args, n a number operand
Call(m, s, t, args, n) == [m |-> m, s |-> s, t |-> t, args |-> args, n |-> n]

SelectCalls ==
    {Call("Prefix", "", <<Lit("WITH p AS "), QTok>>, <<IntV(0)>>, 0),
     Call("Distinct", "", <<>>, <<>>, 0),
     Call("Top", "", <<>>, <<>>, 2),
     Call("Columns", "b", <<>>, <<>>, 0),
     Call("Column", "", <<Lit("c = "), QTok>>, <<IntV(7)>>, 0),
     Call("From", "t", <<>>, <<>>, 0),
     Call("From", "u", <<>>, <<>>, 0),
     Call("Join", "j ON j.id = t.id", <<>>, <<>>, 0),
     Call("Where", "", <<Lit("w1 = "), QTok>>, <<IntV(1)>>, 0),
     Call("Where", "", <<Lit("w2 = "), QTok>>, <<IntV(2)>>, 0),
     Call("GroupBy", "g", <<>>, <<>>, 0),
     Call("Having", "", <<Lit("h = "), QTok>>, <<IntV(3)>>, 0),
     Call("OrderBy", "o", <<>>, <<>>, 0),
     Call("Limit", "", <<>>, <<>>, 0),
     Call("Limit", "", <<>>, <<>>, 4),
     Call("Offset", "", <<>>, <<>>, 0),
     Call("Offset", "", <<>>, <<>>, 5),
     Call("Suffix", "", <<Lit("FETCH "), QTok>>, <<IntV(6)>>, 0)}

\* the call c made on the SelectBuilder b
SelectBuilder_Call(b, c) ==
    CASE c.m = "Prefix" -> SelectBuilder_Prefix(b, c.t, c.args)
      [] c.m = "Distinct" -> SelectBuilder_Distinct(b)
      [] c.m = "Top" -> SelectBuilder_Top(b, c.n)
      [] c.m = "Columns" -> SelectBuilder_Columns(b, <<c.s>>)
      [] c.m = "Column" -> SelectBuilder_Column(b, StrV(c.t), c.args)
      [] c.m = "From" -> SelectBuilder_From(b, c.s)
      [] c.m = "Join" -> SelectBuilder_Join(b, c.s)
      [] c.m = "Where" -> SelectBuilder_Where(b, StrV(c.t), c.args)
      [] c.m = "GroupBy" -> SelectBuilder_GroupBy(b, <<c.s>>)
      [] c.m = "Having" -> SelectBuilder_Having(b, StrV(c.t), c.args)
      [] c.m = "OrderBy" -> SelectBuilder_OrderBy(b, <<c.s>>)
      [] c.m = "Limit" -> SelectBuilder_Limit(b, c.n)
      [] c.m = "Offset" -> SelectBuilder_Offset(b, c.n)
      [] c.m = "Suffix" -> SelectBuilder_Suffix(b, c.t, c.args)

InsertCalls ==
    {Call("Prefix", "", <<Lit("WITH p AS "), QTok>>, <<IntV(0)>>, 0),
     Call("Into", "t", <<>>, <<>>, 0),
     Call("Columns", "a", <<>>, <<>>, 0),
     Call("Values", "", <<>>, <<IntV(1)>>, 0),
     Call("Values", "", <<>>, <<IntV(2)>>, 0),
     Call("Suffix", "", <<Lit("RETURNING "), QTok>>, <<IntV(6)>>, 0)}

\* the call c made on the InsertBuilder b
InsertBuilder_Call(b, c) ==
    CASE c.m = "Prefix" -> InsertBuilder_Prefix(b, c.t, c.args)
      [] c.m = "Into" -> InsertBuilder_Into(b, c.s)
      [] c.m = "Columns" -> InsertBuilder_Columns(b, <<c.s>>)
      [] c.m = "Values" -> InsertBuilder_Values(b, c.args)
      [] c.m = "Suffix" -> InsertBuilder_Suffix(b, c.t, c.args)

DeleteCalls ==
    {Call("Prefix", "", <<Lit("WITH p AS "), QTok>>, <<IntV(0)>>, 0),
     Call("From", "t", <<>>, <<>>, 0),
     Call("Where", "", <<Lit("w1 = "), QTok>>, <<IntV(1)>>, 0),
     Call("OrderBy", "o", <<>>, <<>>, 0),
     Call("Limit", "", <<>>, <<>>, 0),
     Call("Limit", "", <<>>, <<>>, 4),
     Call("Offset", "", <<>>, <<>>, 5),
     Call("Suffix", "", <<Lit("RETURNING "), QTok>>, <<IntV(6)>>, 0)}

\* the call c made on the DeleteBuilder b
DeleteBuilder_Call(b, c) ==
    CASE c.m = "Prefix" -> DeleteBuilder_Prefix(b, c.t, c.args)
      [] c.m = "From" -> DeleteBuilder_From(b, c.s)
      [] c.m = "Where" -> DeleteBuilder_Where(b, StrV(c.t), c.args)
      [] c.m = "OrderBy" -> DeleteBuilder_OrderBy(b, <<c.s>>)
      [] c.m = "Limit" -> DeleteBuilder_Limit(b, c.n)
      [] c.m = "Offset" -> DeleteBuilder_Offset(b, c.n)
      [] c.m = "Suffix" -> DeleteBuilder_Suffix(b, c.t, c.args)

\* Set(column, value): the value is args[1], or Expr(t, args) when t is given
UpdateCalls ==
    {Call("Prefix", "", <<Lit("WITH p AS "), QTok>>, <<IntV(0)>>, 0),
     Call("Table", "t", <<>>, <<>>, 0),
     Call("Set", "b", <<>>, <<IntV(1)>>, 0),
     Call("Set", "c", <<QTok, Lit(" + 1")>>, <<IntV(2)>>, 0),
     Call("Where", "", <<Lit("w1 = "), QTok>>, <<IntV(3)>>, 0),
     Call("OrderBy", "o", <<>>, <<>>, 0),
     Call("Limit", "", <<>>, <<>>, 0),
     Call("Limit", "", <<>>, <<>>, 4),
     Call("Offset", "", <<>>, <<>>, 0),
     Call("Offset", "", <<>>, <<>>, 5),
     Call("Suffix", "", <<Lit("RETURNING "), QTok>>, <<IntV(6)>>, 0)}

\* the call c made on the UpdateBuilder b
UpdateBuilder_Call(b, c) ==
    CASE c.m = "Prefix" -> UpdateBuilder_Prefix(b, c.t, c.args)
      [] c.m = "Table" -> UpdateBuilder_Table(b, c.s)
      [] c.m = "Set" -> UpdateBuilder_Set(b, c.s, IF c.t = <<>> THEN c.args[1]
                                                 ELSE Expr(c.t, c.args))
      [] c.m = "Where" -> UpdateBuilder_Where(b, StrV(c.t), c.args)
      [] c.m = "OrderBy" -> UpdateBuilder_OrderBy(b, <<c.s>>)
      [] c.m = "Limit" -> UpdateBuilder_Limit(b, c.n)
      [] c.m = "Offset" -> UpdateBuilder_Offset(b, c.n)
      [] c.m = "Suffix" -> UpdateBuilder_Suffix(b, c.t, c.args)

BuilderKinds == {"select", "insert", "delete", "update"}

CallsFor(kind) ==
    CASE kind = "select" -> SelectCalls
      [] kind = "insert" -> InsertCalls
      [] kind = "delete" -> DeleteCalls
      [] kind = "update" -> UpdateCalls

BuilderCalled(b, c) ==
    CASE b.kind = "select" -> SelectBuilder_Call(b, c)
      [] b.kind = "insert" -> InsertBuilder_Call(b, c)
      [] b.kind = "delete" -> DeleteBuilder_Call(b, c)
      [] b.kind = "update" -> UpdateBuilder_Call(b, c)

\* how the builder was made: the constructor m and its operand s
Ctor(m, s) == [kind |-> "ctor", m |-> m, s |-> s]

\* Select(), Insert(""), NewDeleteBuilder(StatementBuilder), Update("")
NewBuilder(kind) ==
    /\ stmt' = CASE kind = "select" -> Select(<<>>)
                 [] kind = "insert" -> Insert("")
                 [] kind = "delete" -> NewDeleteBuilder(StatementBuilder)
                 [] kind = "update" -> Update("")
    /\ pred' = Ctor("New", "")
    /\ calls' = <<>>
    /\ out' = NoOut
    /\ UNCHANGED <<sub, depth>>

Tables == {"t", "u"}

\* Delete(from)
NewDelete(from) ==
    /\ stmt' = Delete(from)
    /\ pred' = Ctor("Delete", from)
    /\ calls' = <<>>
    /\ out' = NoOut
    /\ UNCHANGED <<sub, depth>>

BuilderCall(c) ==
    /\ Len(calls) < MaxCalls
    /\ stmt' = BuilderCalled(stmt, c)
    /\ calls' = Append(calls, c)
    /\ out' = NoOut
    /\ UNCHANGED <<pred, sub, depth>>

BuilderToSql ==
    /\ out = NoOut
    /\ out' = StmtToSqlOut(ToSql(stmt))
    /\ UNCHANGED <<pred, calls, sub, depth, stmt>>

InitBuild ==
    /\ pred = Ctor("New", "")
    /\ calls = <<>>
    /\ sub = Nil
    /\ depth = 0
    /\ stmt = Select(<<>>)
    /\ out = NoOut

NextBuild ==
    \/ \E kind \in BuilderKinds : NewBuilder(kind)
    \/ \E from \in Tables : NewDelete(from)
    \/ \E c \in CallsFor(stmt.kind) : BuilderCall(c)
    \/ BuilderToSql

SpecBuild == InitBuild /\ [][NextBuild]_vars

\* the calls of the methods ms among cs, in call order
RECURSIVE CallsOf(_, _)
CallsOf(cs, ms) ==
    IF cs = <<>> THEN <<>>
    ELSE (IF Head(cs).m \in ms THEN <<Head(cs)>> ELSE <<>>) \o CallsOf(Tail(cs), ms)

Made(ms) == CallsOf(calls, ms)
Called(m) == Made({m}) # <<>>
LastCall(m) == Made({m})[Len(Made({m}))]

\* the operands of the calls cs as texts: a string operand is written as it is
OperandTexts(cs) == [i \in DOMAIN cs |-> IF cs[i].t # <<>> THEN cs[i].t ELSE T(cs[i].s)]
OperandArgs(cs) == Flatten([i \in DOMAIN cs |-> cs[i].args])

\* the clause, if the condition holds
Clause(cond, text) == IF cond THEN text ELSE <<>>

\* the operands of the calls of the methods ms, joined by sep after the keyword
ListClause(keyword, ms, sep) ==
    Clause(Made(ms) # <<>>, Cat(T(keyword), Join(OperandTexts(Made(ms)), T(sep))))

NumClause(keyword, m) ==
    Clause(Called(m), Cat(T(keyword), <<NumTok(LastCall(m).n)>>))

JoinTexts == [i \in DOMAIN Made({"Join"}) |-> T("JOIN " \o Made({"Join"})[i].s)]

\* the text of a SELECT in the fixed clause order, from the calls made
SelectText ==
    Join(<<Clause(Called("Prefix"), Cat(Join(OperandTexts(Made({"Prefix"})), T(" ")), T(" "))),
           T("SELECT "),
           Clause(Called("Distinct"), T("DISTINCT ")),
           Clause(Called("Top"), Cat(NumClause("TOP ", "Top"), T(" "))),
           Join(OperandTexts(Made({"Columns", "Column"})), T(", ")),
           Clause(Called("From"), T(" FROM " \o LastCall("From").s)),
           Clause(Called("Join"), Cat(T(" "), Join(JoinTexts, T(" ")))),
           ListClause(" WHERE ", {"Where"}, " AND "),
           ListClause(" GROUP BY ", {"GroupBy"}, ", "),
           ListClause(" HAVING ", {"Having"}, " AND "),
           ListClause(" ORDER BY ", {"OrderBy"}, ", "),
           NumClause(" LIMIT ", "Limit"),
           NumClause(" OFFSET ", "Offset"),
           ListClause(" ", {"Suffix"}, " ")>>, <<>>)

\* prefix, column, where, having and suffix arguments, in that order
SelectArgs ==
    OperandArgs(Made({"Prefix"})) \o OperandArgs(Made({"Columns", "Column"}))
        \o OperandArgs(Made({"Where"})) \o OperandArgs(Made({"Having"}))
        \o OperandArgs(Made({"Suffix"}))

HasColumn == Made({"Columns", "Column"}) # <<>>

\* C15: whatever the order of the calls made on a SelectBuilder with a
\* result column, ToSql returns the clauses in the order prefixes, SELECT
\* [DISTINCT] [TOP n], columns, FROM, joins, WHERE, GROUP BY, HAVING, ORDER
\* BY, LIMIT, OFFSET, suffixes, the parts of one clause in call order, and
\* the prefix, column, where, having and suffix arguments in that order.
C15_ClauseOrder ==
    (out.op = "StmtToSql" /\ stmt.kind = "select" /\ HasColumn) =>
        out.res = Result(SelectText, SelectArgs, NoErr)

C15_Witness ==
    /\ out.op = "StmtToSql"
    /\ stmt.kind = "select"
    /\ calls = <<Call("Suffix", "", <<Lit("FETCH "), QTok>>, <<IntV(6)>>, 0),
                 Call("Where", "", <<Lit("w2 = "), QTok>>, <<IntV(2)>>, 0),
                 Call("Column", "", <<Lit("c = "), QTok>>, <<IntV(7)>>, 0)>>
    /\ out.res = Result(<<Lit("SELECT c = "), QTok, Lit(" WHERE w2 = "), QTok,
                          Lit(" FETCH "), QTok>>,
                        <<IntV(7), IntV(2), IntV(6)>>, NoErr)

-----------------------------------------------------------------------------
(* Required clauses *)

\* the builder was given no table, by its constructor or by a call of m
NoTable(m) == pred.s = "" /\ ~Called(m)

\* a clause the statement must have was never given
MissingRequired ==
    CASE stmt.kind = "select" -> ~HasColumn
      [] stmt.kind = "insert" -> NoTable("Into") \/ ~Called("Values")
      [] stmt.kind = "delete" -> NoTable("From")
      [] stmt.kind = "update" -> NoTable("Table") \/ ~Called("Set")

\* C16: ToSql of a SelectBuilder with no result column, of an InsertBuilder
\* with no table or no row of values, of a DeleteBuilder with no From table,
\* and of an UpdateBuilder with no table or no Set clause returns an error,
\* empty text and no arguments, whatever other calls were made.
C16_MissingClause ==
    (out.op = "StmtToSql" /\ MissingRequired) =>
        /\ out.res.err # NoErr
        /\ out.res.sql = <<>>
        /\ out.res.args = <<>>

C16_Witness ==
    /\ out.op = "StmtToSql"
    /\ stmt.kind = "delete"
    /\ pred = Ctor("New", "")
    /\ calls = <<Call("Prefix", "", <<Lit("WITH p AS "), QTok>>, <<IntV(0)>>, 0),
                 Call("Where", "", <<Lit("w1 = "), QTok>>, <<IntV(1)>>, 0),
                 Call("Limit", "", <<>>, <<>>, 4)>>
    /\ out.res = Result(<<>>, <<>>, "delete statements must specify a From table")

-----------------------------------------------------------------------------
(* LIMIT and OFFSET *)

\* the Set clauses as texts: "column = ?", or "column = " and the text of
\* the expression given as the value
SetTexts ==
    [i \in DOMAIN Made({"Set"}) |->
        Cat(T(Made({"Set"})[i].s \o " = "),
            IF Made({"Set"})[i].t = <<>> THEN <<QTok>> ELSE Made({"Set"})[i].t)]

\* the text of an UPDATE, from the calls made
UpdateText ==
    Join(<<Clause(Called("Prefix"), Cat(Join(OperandTexts(Made({"Prefix"})), T(" ")), T(" "))),
           T("UPDATE " \o LastCall("Table").s),
           T(" SET "),
           Join(SetTexts, T(", ")),
           ListClause(" WHERE ", {"Where"}, " AND "),
           ListClause(" ORDER BY ", {"OrderBy"}, ", "),
           NumClause(" LIMIT ", "Limit"),
           NumClause(" OFFSET ", "Offset"),
           ListClause(" ", {"Suffix"}, " ")>>, <<>>)

\* C17: in the text ToSql returns for a SelectBuilder or an UpdateBuilder,
\* " LIMIT n" and then " OFFSET n" stand after the ORDER BY clause and
\* before the suffixes, n being the operand of the last Limit (Offset) call,
\* 0 included; a clause whose method was never called is absent.
C17_LimitOffset ==
    (out.op = "StmtToSql" /\ stmt.kind \in {"select", "update"} /\ ~MissingRequired) =>
        /\ out.res.err = NoErr
        /\ out.res.sql = IF stmt.kind = "select" THEN SelectText ELSE UpdateText

C17_Witness ==
    /\ out.op = "StmtToSql"
    /\ stmt.kind = "select"
    /\ calls = <<Call("Columns", "b", <<>>, <<>>, 0),
                 Call("Limit", "", <<>>, <<>>, 4),
                 Call("Limit", "", <<>>, <<>>, 0)>>
    /\ out.res = Result(<<Lit("SELECT b LIMIT "), NumTok(0)>>, <<>>, NoErr)

-----------------------------------------------------------------------------
(* The copy world: an UpdateBuilder is built, copied once, and the         *)
(* original and the copy are built further, each on its own.  A builder    *)
(* holds its clauses in Go slices: a slice is a window (arr, len, cap) on  *)
(* a backing array, and append writes into the array when there is room.   *)
(* pred holds the backing arrays, stmt the original, sub the copy, calls   *)
(* the calls that made the original and those that made the copy, depth    *)
(* the number of calls the original had got when it was copied.            *)

MaxSets == 4

\* the nil slice
NilSlice == [arr |-> 0, len |-> 0, cap |-> 0]

\* the elements of the slice s
SliceOf(h, s) == IF s.len = 0 THEN <<>> ELSE SubSeq(h[s.arr], 1, s.len)

\* the capacity append gives a slice that is full
growCap(cap) == IF cap = 0 THEN 1 ELSE 2 * cap

\* append(s, x): x is written after the last element when cap allows it,
\* else into a new array of a greater capacity the elements are copied to
go_append(h, s, x) ==
    IF s.len < s.cap
    THEN [h |-> [h EXCEPT ![s.arr][s.len + 1] = x], s |-> [s EXCEPT !.len = @ + 1]]
    ELSE [h |-> Append(h, SliceOf(h, s) \o <<x>>
                           \o [i \in 1..(growCap(s.cap) - s.len - 1) |-> Nil]),
          s |-> [arr |-> Len(h) + 1, len |-> s.len + 1, cap |-> growCap(s.cap)]]

\* Update(table), its clauses held in slices
UpdateRef(table) ==
    [kind |-> "updateRef", table |-> table, setClauses |-> NilSlice,
     whereParts |-> NilSlice]

\* the builder b, its clauses read from the backing arrays
Deref(h, b) ==
    [Update(b.table) EXCEPT !.setClauses = SliceOf(h, b.setClauses),
                            !.whereParts = SliceOf(h, b.whereParts)]

\* a faulty Copy: the struct is copied, the slices keep their arrays
UpdateBuilder_Copy_shallow(h, b) == [h |-> h, b |-> b]

\* UpdateBuilder.Copy(): every slice is duplicated into an array of its own
UpdateBuilder_Copy(h, b) ==
    [h |-> h \o <<SliceOf(h, b.setClauses), SliceOf(h, b.whereParts)>>,
     b |-> [b EXCEPT !.setClauses = [arr |-> Len(h) + 1, len |-> @.len, cap |-> @.len],
                     !.whereParts = [arr |-> Len(h) + 2, len |-> @.len, cap |-> @.len]]]

\* UpdateBuilder.Set(column, value) and UpdateBuilder.Where(pred, args...)
\* on a builder whose clauses are held in slices
UpdateRef_Call(h, b, c) ==
    CASE c.m = "Set" ->
            [h |-> go_append(h, b.setClauses, setClause(c.s, c.args[1])).h,
             b |-> [b EXCEPT !.setClauses =
                        go_append(h, b.setClauses, setClause(c.s, c.args[1])).s]]
      [] c.m = "Where" ->
            [h |-> go_append(h, b.whereParts, newWherePart(StrV(c.t), c.args)).h,
             b |-> [b EXCEPT !.whereParts =
                        go_append(h, b.whereParts, newWherePart(StrV(c.t), c.args)).s]]

Heap(h) == [kind |-> "heap", arrays |-> h]

\* the calls made on the original, and those made on the copy
OriginalCalls ==
    {Call("Set", "b", <<>>, <<IntV(2)>>, 0),
     Call("Where", "", <<Lit("w1 = "), QTok>>, <<IntV(1)>>, 0)}

CopyCalls == {Call("Set", "c", <<>>, <<IntV(3)>>, 0)}

CopyOut(original, copy) == [op |-> "CopyToSql", original |-> original, copy |-> copy]

\* s1.Set(..) / s1.Where(..)
CallOriginal(c) ==
    /\ Len(calls[1]) < MaxSets
    /\ stmt' = UpdateRef_Call(pred.arrays, stmt, c).b
    /\ pred' = Heap(UpdateRef_Call(pred.arrays, stmt, c).h)
    /\ calls' = <<Append(calls[1], c), calls[2]>>
    /\ out' = NoOut
    /\ UNCHANGED <<sub, depth>>

\* s2 := s1.Copy()
CopyBuilder ==
    /\ sub = Nil
    /\ sub' = UpdateBuilder_Copy(pred.arrays, stmt).b
    /\ pred' = Heap(UpdateBuilder_Copy(pred.arrays, stmt).h)
    /\ calls' = <<calls[1], calls[1]>>
    /\ depth' = Len(calls[1])
    /\ out' = NoOut
    /\ UNCHANGED stmt

\* s2.Set(..) / s2.Where(..)
CallCopy(c) ==
    /\ sub # Nil
    /\ Len(calls[2]) < MaxSets
    /\ sub' = UpdateRef_Call(pred.arrays, sub, c).b
    /\ pred' = Heap(UpdateRef_Call(pred.arrays, sub, c).h)
    /\ calls' = <<calls[1], Append(calls[2], c)>>
    /\ out' = NoOut
    /\ UNCHANGED <<stmt, depth>>

\* s1.ToSql() and s2.ToSql()
CopyToSql ==
    /\ out = NoOut
    /\ out' = CopyOut(ToSql(Deref(pred.arrays, stmt)),
                      IF sub = Nil THEN NoOut ELSE ToSql(Deref(pred.arrays, sub)))
    /\ UNCHANGED <<pred, calls, sub, depth, stmt>>

InitCopy ==
    /\ pred = Heap(<<>>)
    /\ calls = <<<<>>, <<>>>>
    /\ sub = Nil
    /\ depth = 0
    /\ stmt = UpdateRef("test")
    /\ out = NoOut

NextCopy ==
    \/ \E c \in OriginalCalls : CallOriginal(c)
    \/ CopyBuilder
    \/ \E c \in CopyCalls : CallCopy(c)
    \/ CopyToSql

SpecCopy == InitCopy /\ [][NextCopy]_vars

\* the builder b after the calls cs, one after the other
RECURSIVE Replayed(_, _)
Replayed(b, cs) ==
    IF cs = <<>> THEN b ELSE Replayed(UpdateBuilder_Call(b, Head(cs)), Tail(cs))

\* C18: the original compiles to what a new builder given the calls made on
\* the original compiles to, and the copy to what a new builder given the
\* calls made on the original before Copy() and then those made on the copy
\* compiles to; when neither got a call after Copy(), both compile alike.
C18_CopyIndependent ==
    out.op = "CopyToSql" =>
        /\ out.original = ToSql(Replayed(Update("test"), calls[1]))
        /\ sub # Nil => out.copy = ToSql(Replayed(Update("test"), calls[2]))
        /\ (sub # Nil /\ Len(calls[1]) = depth /\ Len(calls[2]) = depth)
               => out.copy = out.original

C18_Witness ==
    /\ out.op = "CopyToSql"
    /\ depth = 3
    /\ calls[1] = <<Call("Set", "b", <<>>, <<IntV(2)>>, 0),
                    Call("Set", "b", <<>>, <<IntV(2)>>, 0),
                    Call("Set", "b", <<>>, <<IntV(2)>>, 0),
                    Call("Set", "b", <<>>, <<IntV(2)>>, 0)>>
    /\ Len(calls[2]) = 4
    /\ calls[2][4] = Call("Set", "c", <<>>, <<IntV(3)>>, 0)
    /\ stmt.setClauses.arr # sub.setClauses.arr
    /\ out.original.sql = <<Lit("UPDATE test SET b = "), QTok, Lit(", b = "), QTok,
                            Lit(", b = "), QTok, Lit(", b = "), QTok>>
    /\ out.copy.sql = <<Lit("UPDATE test SET b = "), QTok, Lit(", b = "), QTok,
                        Lit(", b = "), QTok, Lit(", c = "), QTok>>
    /\ out.copy.args = <<IntV(2), IntV(2), IntV(2), IntV(3)>>

-----------------------------------------------------------------------------
(* The runner world: a builder is created, given clauses and a runner, and *)
(* run.  A runner is "nil" (none set), "BaseRunner" (an Execer and Queryer *)
(* that is no QueryRower) or "Runner" (all three).  What an operation      *)
(* gives carries the calls the driver got and whether ToSql was called.    *)

Runners == {"nil", "BaseRunner", "Runner"}

ErrRunnerNotSet == "cannot run; no Runner set (RunWith)"
ErrRunnerNotQueryRunner == "cannot QueryRow; Runner is not a QueryRower"

\* what the driver itself answers
DriverErrs == {NoErr, "driver: bad connection"}

DriverCall(op, query, args) == [op |-> op, query |-> query, args |-> args]

Ran(err, driver, compiled) == [err |-> err, driver |-> driver, compiled |-> compiled]

\* &Row{RowScanner: scanner, err: err}; scanner is what the driver's row
\* answers to Scan
Row(scanner, err, driver, compiled) ==
    [scanner |-> scanner, err |-> err, driver |-> driver, compiled |-> compiled]

\* a faulty ExecWith: the text is handed to the driver's Query
ExecWith_viaQuery(db, r, derr) ==
    IF r.err # NoErr THEN Ran(r.err, <<>>, TRUE)
    ELSE Ran(derr, <<DriverCall("Query", r.sql, r.args)>>, TRUE)

\* ExecWith(db, s), r being what s.ToSql() returned and derr what the
\* driver answers
ExecWith(db, r, derr) ==
    IF r.err # NoErr THEN Ran(r.err, <<>>, TRUE)
    ELSE Ran(derr, <<DriverCall("Exec", r.sql, r.args)>>, TRUE)

\* QueryWith(db, s)
QueryWith(db, r, derr) ==
    IF r.err # NoErr THEN Ran(r.err, <<>>, TRUE)
    ELSE Ran(derr, <<DriverCall("Query", r.sql, r.args)>>, TRUE)

\* QueryRowWith(db, s)
QueryRowWith(db, r, derr) ==
    Row(derr, r.err, <<DriverCall("QueryRow", r.sql, r.args)>>, TRUE)

\* Row.Scan(dest...)
Row_Scan(row) ==
    Ran(IF row.err # NoErr THEN row.err ELSE row.scanner, row.driver, row.compiled)

\* SelectBuilder.RunWith(runner)
SelectBuilder_RunWith(b, runner) == [b EXCEPT !.runWith = runner]

\* SelectBuilder.Exec()
SelectBuilder_Exec(b, derr) ==
    IF b.runWith = "nil" THEN Ran(ErrRunnerNotSet, <<>>, FALSE)
    ELSE ExecWith(b.runWith, ToSql(b), derr)

\* SelectBuilder.Query()
SelectBuilder_Query(b, derr) ==
    IF b.runWith = "nil" THEN Ran(ErrRunnerNotSet, <<>>, FALSE)
    ELSE QueryWith(b.runWith, ToSql(b), derr)

\* SelectBuilder.QueryRow()
SelectBuilder_QueryRow(b, derr) ==
    IF b.runWith = "nil" THEN Row(Nil, ErrRunnerNotSet, <<>>, FALSE)
    ELSE IF b.runWith # "Runner" THEN Row(Nil, ErrRunnerNotQueryRunner, <<>>, FALSE)
    ELSE QueryRowWith(b.runWith, ToSql(b), derr)

\* SelectBuilder.Scan(dest...)
SelectBuilder_Scan(b, derr) == Row_Scan(SelectBuilder_QueryRow(b, derr))

\* DeleteBuilder.RunWith(runner)
DeleteBuilder_RunWith(b, runner) == [b EXCEPT !.runWith = runner]

\* DeleteBuilder.Exec()
DeleteBuilder_Exec(b, derr) ==
    IF b.runWith = "nil" THEN Ran(ErrRunnerNotSet, <<>>, FALSE)
    ELSE ExecWith(b.runWith, ToSql(b), derr)

RunKinds == {"select", "delete"}

\* the operations a builder has
RunOps(kind) ==
    IF kind = "select" THEN {"Exec", "Query", "QueryRow", "Scan"} ELSE {"Exec"}

RunCalls(kind) ==
    IF kind = "select"
    THEN {Call("Columns", "b", <<>>, <<>>, 0),
          Call("Where", "", <<Lit("w1 = "), QTok>>, <<IntV(1)>>, 0),
          Call("Where", "", <<QTok>>, <<BadSel>>, 0)}
    ELSE {Call("From", "t", <<>>, <<>>, 0),
          Call("Where", "", <<Lit("w1 = "), QTok>>, <<IntV(1)>>, 0)}

RunOut(op, ran) ==
    [op |-> op, err |-> ran.err, driver |-> ran.driver, compiled |-> ran.compiled]

\* b.RunWith(runner)
RunWith(runner) ==
    /\ stmt' = IF stmt.kind = "select" THEN SelectBuilder_RunWith(stmt, runner)
               ELSE DeleteBuilder_RunWith(stmt, runner)
    /\ out' = NoOut
    /\ UNCHANGED <<pred, calls, sub, depth>>

\* b.Exec(), b.Query(), b.QueryRow(), b.Scan()
Run(op, derr) ==
    /\ op \in RunOps(stmt.kind)
    /\ out' = RunOut(op,
                     CASE stmt.kind = "delete" -> DeleteBuilder_Exec(stmt, derr)
                       [] op = "Exec" -> SelectBuilder_Exec(stmt, derr)
                       [] op = "Query" -> SelectBuilder_Query(stmt, derr)
                       [] op = "QueryRow" -> SelectBuilder_QueryRow(stmt, derr)
                       [] op = "Scan" -> SelectBuilder_Scan(stmt, derr))
    /\ UNCHANGED <<pred, calls, sub, depth, stmt>>

NextRun ==
    \/ \E kind \in RunKinds : NewBuilder(kind)
    \/ \E c \in RunCalls(stmt.kind) : BuilderCall(c)
    \/ \E runner \in Runners : RunWith(runner)
    \/ \E op \in {"Exec", "Query", "QueryRow", "Scan"}, derr \in DriverErrs : Run(op, derr)

SpecRun == InitBuild /\ [][NextRun]_vars

IsRun == out.op \in {"Exec", "Query", "QueryRow", "Scan"}

\* the driver operation an operation of the builder ends in
DriverOp(op) == IF op = "Scan" THEN "QueryRow" ELSE op

\* C19: with no runner set, Exec, Query, QueryRow and Scan give
\* ErrRunnerNotSet, the statement is not compiled and the driver gets no
\* call; with a runner that is no QueryRower, QueryRow and Scan give
\* ErrRunnerNotQueryRunner and the driver gets no call; with a full runner
\* and a statement that compiles, the driver gets one call, of the matching
\* operation, with the text ToSql returns.
C19_Runners ==
    IsRun =>
        /\ stmt.runWith = "nil" =>
               (out.err = ErrRunnerNotSet /\ ~out.compiled /\ out.driver = <<>>)
        /\ (stmt.runWith = "BaseRunner" /\ out.op \in {"QueryRow", "Scan"}) =>
               (out.err = ErrRunnerNotQueryRunner /\ out.driver = <<>>)
        /\ (stmt.runWith = "Runner" /\ ToSql(stmt).err = NoErr) =>
               /\ Len(out.driver) = 1
               /\ out.driver[1].op = DriverOp(out.op)
               /\ out.driver[1].query = ToSql(stmt).sql

C19_Witness ==
    /\ out.op = "Exec"
    /\ stmt.kind = "select"
    /\ stmt.runWith = "Runner"
    /\ calls = <<Call("Columns", "b", <<>>, <<>>, 0),
                 Call("Where", "", <<Lit("w1 = "), QTok>>, <<IntV(1)>>, 0)>>
    /\ out.err = NoErr
    /\ out.driver = <<DriverCall("Exec", <<Lit("SELECT b WHERE w1 = "), QTok>>, <<IntV(1)>>)>>

-----------------------------------------------------------------------------
(* Delete(from) *)

\* C20: the builder Delete(from) returns has `from` as its FROM table and
\* the placeholder format and the runner of StatementBuilder, and ToSql,
\* called on it with no call in between, returns "DELETE FROM <from>", no
\* arguments and no error.
C20_DeleteFrom ==
    (pred.m = "Delete" /\ calls = <<>>) =>
        /\ stmt.from = pred.s
        /\ stmt.placeholderFormat = StatementBuilder.placeholderFormat
        /\ stmt.runWith = StatementBuilder.runWith
        /\ out.op = "StmtToSql" => out.res = Result(T("DELETE FROM " \o pred.s), <<>>, NoErr)

-----------------------------------------------------------------------------
(* The parts world: where parts are gathered, in `calls`, and flattened    *)
(* with a separator after the arguments already gathered.                  *)

WhereParts ==
    {newWherePart(StrV(<<Lit("x = "), QTok>>), <<IntV(1)>>),
     newWherePart(MapPred("Eq", [k \in {"y"} |-> IntV(2)]), <<>>),
     newWherePart(Nil, <<>>),
     newWherePart(StrV(<<>>), <<>>),
     newWherePart(MapPred("Eq", EmptyMap), <<>>),
     newWherePart(SlicePred("EqSlice", <<>>), <<>>)}

Seps == {" AND ", ", "}

IncomingArgs == {<<>>, <<IntV(9)>>}

PartsOut(sep, args, res) == [op |-> "appendToSql", sep |-> sep, args |-> args, res |-> res]

\* whereParts = append(whereParts, part)
AddPart(part) ==
    /\ Len(calls) < MaxMembers
    /\ calls' = Append(calls, part)
    /\ out' = NoOut
    /\ UNCHANGED <<pred, sub, depth, stmt>>

\* var whereParts []Sqlizer
ClearParts ==
    /\ calls' = <<>>
    /\ out' = NoOut
    /\ UNCHANGED <<pred, sub, depth, stmt>>

\* appendToSql(whereParts, sql, sep, args) on an empty buffer
FlattenParts(sep, args) ==
    /\ out = NoOut
    /\ out' = PartsOut(sep, args, appendToSql(calls, <<>>, T(sep), args))
    /\ UNCHANGED <<pred, calls, sub, depth, stmt>>

InitParts ==
    /\ pred = Nil
    /\ calls = <<>>
    /\ sub = Nil
    /\ depth = 0
    /\ stmt = Nil
    /\ out = NoOut

NextParts ==
    \/ \E part \in WhereParts : AddPart(part)
    \/ ClearParts
    \/ \E sep \in Seps, args \in IncomingArgs : FlattenParts(sep, args)

SpecParts == InitParts /\ [][NextParts]_vars

\* what each part compiles to, and the parts that have text, in part order
PartResults == [i \in DOMAIN calls |-> ToSql(calls[i])]

RECURSIVE WithText(_)
WithText(rs) ==
    IF rs = <<>> THEN <<>>
    ELSE (IF Head(rs).sql # <<>> THEN <<Head(rs)>> ELSE <<>>) \o WithText(Tail(rs))

\* C21: flattening where parts with a separator writes the texts of the
\* parts that have text, in part order, with the separator between two of
\* them and nowhere else, wherever the parts without text sit; the
\* arguments returned are the incoming ones followed by those of the parts,
\* in part order.
C21_FlattenParts ==
    out.op = "appendToSql" =>
        /\ out.res.err = NoErr
        /\ out.res.w = Join([i \in DOMAIN WithText(PartResults) |->
                                WithText(PartResults)[i].sql], T(out.sep))
        /\ out.res.args = out.args \o Flatten([i \in DOMAIN PartResults |->
                                                  PartResults[i].args])

C21_Witness ==
    /\ out.op = "appendToSql"
    /\ out.sep = " AND "
    /\ out.args = <<IntV(9)>>
    /\ calls = <<newWherePart(MapPred("Eq", EmptyMap), <<>>),
                 newWherePart(StrV(<<Lit("x = "), QTok>>), <<IntV(1)>>),
                 newWherePart(Nil, <<>>)>>
    /\ out.res.w = <<Lit("x = "), QTok>>
    /\ out.res.args = <<IntV(9), IntV(1)>>

-----------------------------------------------------------------------------
(* The value encoders of package pg.  A Go string is the sequence of its   *)
(* characters, a float the number of its tenths; a slice value carries its *)
(* element type (elem, and depth for the nesting of the slice type); an    *)
(* encoded literal is a TLA+ string.  pred holds the value handed to the   *)
(* encoder.                                                                *)

MaxLen == 2
\* the nestings of the slice types: []T and [][]T
Nestings == {1, 2}

GoString(chars) == [kind |-> "gostring", chars |-> chars]
Float(kind, tenths) == [kind |-> kind, tenths |-> tenths]
Struct == [kind |-> "struct"]
PgSlice(nest, elem, elems) ==
    [kind |-> "slice", depth |-> nest, elem |-> elem, elems |-> elems]

\* the bound argument: a Go string holding the literal
Literal(s) == [kind |-> "literal", s |-> s]

\* strconv.Itoa
Itoa(i) == ToString(i)

\* strconv.FormatFloat(f, 'f', -1, bits), f not negative
FormatFloat(f) ==
    IF f.tenths % 10 = 0 THEN ToString(f.tenths \div 10)
    ELSE ToString(f.tenths \div 10) \o "." \o ToString(f.tenths % 10)

\* strconv.Quote, the characters from the i-th on
RECURSIVE Quote_chars(_, _)
Quote_chars(chars, i) ==
    IF i > Len(chars) THEN ""
    ELSE (IF chars[i] = "\"" THEN "\\\""
          ELSE IF chars[i] = "\\" THEN "\\\\"
          ELSE chars[i]) \o Quote_chars(chars, i + 1)

Quote(s) == "\"" \o Quote_chars(s.chars, 1) \o "\""

\* what marshalIntSlice, marshalFloat32Slice, marshalFloat64Slice and
\* marshalStringSlice write for one element
marshal_elem(e) ==
    CASE e.kind = "int" -> Itoa(e.v)
      [] e.kind \in {"float32", "float64"} -> FormatFloat(e)
      [] e.kind = "gostring" -> Quote(e)

\* the loop of marshalIntSlice and its like: "," and the element, from the
\* i-th on
RECURSIVE marshal_rest(_, _)
marshal_rest(src, i) ==
    IF i > Len(src) THEN ""
    ELSE "," \o marshal_elem(src[i]) \o marshal_rest(src, i + 1)

\* marshalIntSlice, marshalFloat32Slice, marshalFloat64Slice,
\* marshalStringSlice
marshalSlice(src) == "{" \o marshal_elem(src[1]) \o marshal_rest(src, 2) \o "}"

RECURSIVE marshalArray(_)
RECURSIVE marshalArray_rest(_, _)

\* marshalArray, default case: "," and the element, from the i-th on
marshalArray_rest(src, i) ==
    IF i > Len(src) THEN ""
    ELSE "," \o marshalArray(src[i]) \o marshalArray_rest(src, i + 1)

\* marshalArray(src, buf)
marshalArray(src) ==
    IF Len(src.elems) = 0 THEN "{}"
    ELSE IF src.depth = 1 THEN marshalSlice(src.elems)
    ELSE "{" \o marshalArray(src.elems[1]) \o marshalArray_rest(src.elems, 2) \o "}"

validElems == {"int", "float32", "float64", "string"}

\* a faulty check: any slice is taken
checkArrayType_anySlice(src) ==
    IF src.kind # "slice" THEN "Expected value of type slice" ELSE NoErr

\* checkArrayType(src), src not nil
checkArrayType(src) ==
    IF src.kind # "slice" THEN "Expected value of type slice"
    ELSE IF src.elem \notin validElems
    THEN "Expected element of type int, float32, float64 or string"
    ELSE NoErr

\* a call that does not return
Panic(msg) == [op |-> "panic", msg |-> msg]

EncodeOut(op, res) == [op |-> op, res |-> res]

\* array.ToSql: reflect.TypeOf(nil) is nil, and checkArrayType calls Kind()
\* on it
array_ToSql(value) ==
    IF value = Nil THEN Panic(NilDereference)
    ELSE IF checkArrayType(value) # NoErr
    THEN EncodeOut("Array", Result(<<>>, <<>>, checkArrayType(value)))
    ELSE EncodeOut("Array", Result(<<QTok>>, <<Literal(marshalArray(value))>>, NoErr))

\* json.Marshal of the values the tests use
json_Marshal(value) ==
    CASE value = Nil -> [s |-> "null", err |-> NoErr]
      [] value.kind = "int" -> [s |-> Itoa(value.v), err |-> NoErr]
      [] value.kind = "gostring" -> [s |-> Quote(value), err |-> NoErr]
      [] OTHER -> [s |-> "", err |-> "json: error calling MarshalJSON"]

\* JSON(value).ToSql / JSONB(value).ToSql
json_ToSql(value, cast) ==
    IF json_Marshal(value).err # NoErr
    THEN EncodeOut(cast, Result(<<>>, <<>>, json_Marshal(value).err))
    ELSE EncodeOut(cast, Result(<<QTok, Lit("::" \o cast)>>,
                                <<Literal(json_Marshal(value).s)>>, NoErr))

\* the elements of a slice of the type elem
ElemsOf(elem) ==
    CASE elem = "int" -> {IntV(1), IntV(42)}
      [] elem = "float32" -> {Float("float32", 15), Float("float32", 20)}
      [] elem = "float64" -> {Float("float64", 15), Float("float64", 20)}
      [] elem = "string" -> {GoString(<<"f", "o", "o">>), GoString(<<"a", "\"", "b">>)}
      [] elem = "struct" -> {Struct}

SeqsUpTo(S, n) == UNION {[1..k -> S] : k \in 0..n}

RECURSIVE SlicesOf(_, _)
SlicesOf(nest, elem) ==
    {PgSlice(nest, elem, e) :
        e \in SeqsUpTo(IF nest = 1 THEN ElemsOf(elem) ELSE SlicesOf(nest - 1, elem), MaxLen)}

PgInputs ==
    {Nil, IntV(42), GoString(<<"f", "o", "o">>), Struct}
        \cup UNION {SlicesOf(nest, elem) :
                        nest \in Nestings, elem \in validElems \cup {"struct"}}

\* pg.Array(value).ToSql()
ArrayToSql ==
    /\ out = NoOut
    /\ out' = array_ToSql(pred)
    /\ UNCHANGED <<pred, calls, sub, depth, stmt>>

\* pg.JSON(value).ToSql() / pg.JSONB(value).ToSql()
JSONToSql(cast) ==
    /\ out = NoOut
    /\ pred \in {Nil, IntV(42), GoString(<<"f", "o", "o">>), Struct}
    /\ out' = json_ToSql(pred, cast)
    /\ UNCHANGED <<pred, calls, sub, depth, stmt>>

InitPg ==
    /\ pred \in PgInputs
    /\ calls = <<>>
    /\ sub = Nil
    /\ depth = 0
    /\ stmt = Nil
    /\ out = NoOut

NextPg ==
    \/ ArrayToSql
    \/ \E cast \in {"json", "jsonb"} : JSONToSql(cast)

SpecPg == InitPg /\ [][NextPg]_vars

\* the literal of a slice: its elements' literals between braces, with
\* commas between them
RECURSIVE Braced(_)
RECURSIVE Commas(_)
Commas(ss) ==
    IF ss = <<>> THEN ""
    ELSE IF Len(ss) = 1 THEN ss[1]
    ELSE ss[1] \o "," \o Commas(Tail(ss))

Braced(v) ==
    IF v.kind = "slice"
    THEN "{" \o Commas([i \in DOMAIN v.elems |-> Braced(v.elems[i])]) \o "}"
    ELSE marshal_elem(v)

\* a slice, however nested, of int, float32, float64 or string
IsPgArray(v) == v.kind = "slice" /\ v.elem \in validElems

\* C22: pg.Array returns, for a slice of int, float32, float64 or string,
\* however nested and empty or not, the text `?` and one argument, the
\* brace-encoded literal; JSON and JSONB return `?::json` and `?::jsonb`
\* and one argument; for any other input, and when the encoding fails,
\* they return an error, empty text and no arguments.
C22_Encoders ==
    /\ out.op # "panic"
    /\ out.op = "Array" =>
           IF IsPgArray(pred)
           THEN out.res = Result(<<QTok>>, <<Literal(Braced(pred))>>, NoErr)
           ELSE out.res.err # NoErr /\ out.res.sql = <<>> /\ out.res.args = <<>>
    /\ out.op \in {"json", "jsonb"} =>
           IF out.res.err = NoErr
           THEN out.res.sql = <<QTok, Lit("::" \o out.op)>> /\ Len(out.res.args) = 1
           ELSE out.res.sql = <<>> /\ out.res.args = <<>>

\* the same for the inputs that are not nil
C22_NotNil == pred # Nil => C22_Encoders

C22_Nested ==
    /\ out.op = "Array"
    /\ pred = PgSlice(2, "int", <<PgSlice(1, "int", <<IntV(1), IntV(42)>>),
                                  PgSlice(1, "int", <<>>)>>)
    /\ out.res.args = <<Literal("{{1,42},{}}")>>

-----------------------------------------------------------------------------
(* The statement world: a SelectBuilder `sub` is built and nested into     *)
(* further SelectBuilders; fragments embedding it are compiled on their    *)
(* own; a top-level statement `stmt` embedding it is built and compiled.   *)
(* A builder is complete before it is embedded: once stmt exists, sub no   *)
(* longer changes.                                                         *)

Input(p, args) == [p |-> p, args |-> args]

\* "n LIKE 'a%b'"
LikeText == <<Lit("n LIKE 'a"), PctTok("b"), Lit("'")>>

\* the tests' dummySqlizer(42)
Dummy == Sqlizer(<<Lit("DUMMY("), QTok, Lit(", "), QTok, Lit(")")>>, <<IntV(42), IntV(42)>>, NoErr)

\* Where(...) inputs of the nested builder
SubWhereInputs ==
    {Input(StrV(<<Lit("bbb = "), QTok>>), <<IntV(9)>>),
     Input(Expr(LikeText, <<>>), <<>>)}

Wraps == {"Eq", "Expr", "Alias"}

\* a new SelectBuilder in which b is nested
Wrapped(b, how, format) ==
    LET outer == SelectBuilder_PlaceholderFormat(SelectBuilder_From(Select(<<"ccc">>), "ddd"), format)
    IN CASE how = "Eq" -> SelectBuilder_Where(outer, MapPred("Eq", [k \in {"id"} |-> b]), <<>>)
         [] how = "Expr" -> SelectBuilder_Where(outer, Expr(<<Lit("id IN ("), QTok, Lit(")")>>, <<b>>), <<>>)
         [] how = "Alias" -> SelectBuilder_Column(outer, Alias(b, "x", <<>>), <<>>)

\* Where(...) inputs of the top-level SelectBuilder, embedding b
StmtWhereInputs(b) ==
    {Input(StrV(<<Lit("c = "), QTok>>), <<IntV(1)>>),
     Input(MapPred("Eq", [k \in {"id"} |-> b]), <<>>),
     Input(SlicePred("NotEqSlice", <<columnValue("n", IntV(3)), columnValue("id", b)>>), <<>>),
     Input(Expr(<<Lit("x IN ("), QTok, Lit(") AND y = "), QTok>>, <<b, IntV(2)>>), <<>>),
     Input(And(<<Expr(<<Lit("a = "), QTok>>, <<IntV(5)>>), MapPred("Eq", [k \in {"id"} |-> b])>>), <<>>)}

\* Values(...) rows of the top-level InsertBuilder, embedding b
StmtRows(b) ==
    {<<IntV(1), b>>,
     <<IntV(13), Expr(<<QTok, Lit(" + 5")>>, <<IntV(12)>>)>>,
     <<IntV(2), Expr(<<QTok, Lit(" + 5")>>, <<IntV(12), IntV(7)>>)>>}

\* fragments compiled on their own, embedding b
Fragments(b) ==
    {Expr(<<Lit("a = "), QTok, Lit(" AND b = "), QTok>>, <<IntV(1)>>),
     Expr(<<Lit("a = "), QTok>>, <<IntV(1), IntV(2)>>),
     Expr(<<Lit("EXISTS("), QTok, Lit(")")>>, <<Dummy>>),
     Expr(<<Lit("("), QTok, Lit(")")>>, <<b>>),
     Expr(<<Lit("("), QTok, Lit(") AND c = "), QTok, Lit(" AND d = "), QTok>>, <<b, IntV(2)>>),
     Expr(<<Lit("x = "), QTok, Lit(" OR ("), QTok, Lit(")")>>, <<IntV(1), Expr(LikeText, <<>>)>>),
     Expr(<<Lit("("), QTok, Lit(") OR ("), QTok, Lit(")")>>, <<BadSel, b>>),
     Alias(b, "al", <<>>),
     Alias(Expr(<<Lit("("), QTok, Lit(")")>>, <<b>>), "al", <<"c1", "c2">>),
     MapPred("NotEq", [k \in {"id"} |-> b]),
     SlicePred("LtSlice", <<columnValue("id", IntV(1)), columnValue("n", Bytes(<<7, 8>>))>>),
     And(<<Expr(<<Lit("a = "), QTok>>, <<IntV(5)>>), MapPred("Eq", [k \in {"id"} |-> b])>>),
     Or(<<MapPred("Eq", EmptyMap), Expr(<<Lit("("), QTok, Lit(")")>>, <<b>>)>>)}

NewSub(format) ==
    /\ stmt = Nil
    /\ sub' = SelectBuilder_PlaceholderFormat(SelectBuilder_From(Select(<<"bbb">>), "aaa"), format)
    /\ depth' = 1
    /\ out' = NoOut
    /\ UNCHANGED <<pred, calls, stmt>>

\* Where(...) on the innermost builder, before it is nested
SubWhere(in) ==
    /\ stmt = Nil
    /\ sub # Nil
    /\ depth = 1
    /\ Len(sub.whereParts) < MaxParts
    /\ sub' = SelectBuilder_Where(sub, in.p, in.args)
    /\ out' = NoOut
    /\ UNCHANGED <<pred, calls, depth, stmt>>

SubWrap(how, format) ==
    /\ stmt = Nil
    /\ sub # Nil
    /\ depth < MaxDepth
    /\ sub' = Wrapped(sub, how, format)
    /\ depth' = depth + 1
    /\ out' = NoOut
    /\ UNCHANGED <<pred, calls, stmt>>

FragToSql(f) ==
    /\ stmt = Nil
    /\ out = NoOut
    /\ out' = FragToSqlOut(f, ToSql(f))
    /\ UNCHANGED <<pred, calls, sub, depth, stmt>>

NewStmt(kind, format) ==
    /\ stmt = Nil
    /\ sub # Nil
    /\ stmt' = IF kind = "select"
               THEN SelectBuilder_PlaceholderFormat(SelectBuilder_From(Select(<<"a">>), "t"), format)
               ELSE InsertBuilder_PlaceholderFormat(Insert("t"), format)
    /\ out' = NoOut
    /\ UNCHANGED <<pred, calls, sub, depth>>

StmtWhere(in) ==
    /\ stmt # Nil
    /\ stmt.kind = "select"
    /\ Len(stmt.whereParts) < MaxParts
    /\ stmt' = SelectBuilder_Where(stmt, in.p, in.args)
    /\ out' = NoOut
    /\ UNCHANGED <<pred, calls, sub, depth>>

StmtColumn(column) ==
    /\ stmt # Nil
    /\ stmt.kind = "select"
    /\ Len(stmt.columns) < MaxParts
    /\ stmt' = SelectBuilder_Column(stmt, column, <<>>)
    /\ out' = NoOut
    /\ UNCHANGED <<pred, calls, sub, depth>>

StmtValues(row) ==
    /\ stmt # Nil
    /\ stmt.kind = "insert"
    /\ Len(stmt.values) < MaxParts
    /\ stmt' = InsertBuilder_Values(stmt, row)
    /\ out' = NoOut
    /\ UNCHANGED <<pred, calls, sub, depth>>

StmtToSql ==
    /\ stmt # Nil
    /\ out = NoOut
    /\ out' = StmtToSqlOut(ToSql(stmt))
    /\ UNCHANGED <<pred, calls, sub, depth, stmt>>

Init ==
    /\ pred = SlicePred("EqSlice", <<>>)
    /\ calls = <<>>
    /\ sub = Nil
    /\ depth = 0
    /\ stmt = Nil
    /\ out = NoOut

Next ==
    \/ \E format \in Formats : NewSub(format)
    \/ \E in \in SubWhereInputs : SubWhere(in)
    \/ \E how \in Wraps, format \in Formats : SubWrap(how, format)
    \/ sub # Nil /\ \E f \in Fragments(sub) : FragToSql(f)
    \/ \E kind \in {"select", "insert"}, format \in Formats : NewStmt(kind, format)
    \/ stmt # Nil /\ \E in \in StmtWhereInputs(sub) : StmtWhere(in)
    \/ stmt # Nil /\ StmtColumn(Alias(sub, "al", <<>>))
    \/ stmt # Nil /\ \E row \in StmtRows(sub) : StmtValues(row)
    \/ StmtToSql

Spec == Init /\ [][Next]_vars

\* the part of the statement world in which the top-level statement is an
\* INSERT whose rows embed the sub-select
NextInsert ==
    \/ \E format \in Formats : NewSub(format)
    \/ \E in \in SubWhereInputs : SubWhere(in)
    \/ \E format \in Formats : NewStmt("insert", format)
    \/ stmt # Nil /\ \E row \in StmtRows(sub) : StmtValues(row)
    \/ StmtToSql

SpecInsert == Init /\ [][NextInsert]_vars

\* the part of the statement world in which fragments are compiled on their
\* own and no top-level statement is built
NextFrag ==
    \/ \E format \in Formats : NewSub(format)
    \/ \E in \in SubWhereInputs : SubWhere(in)
    \/ \E how \in Wraps, format \in Formats : SubWrap(how, format)
    \/ sub # Nil /\ \E f \in Fragments(sub) : FragToSql(f)

SpecFrag == Init /\ [][NextFrag]_vars

-----------------------------------------------------------------------------
(* Properties of the statement world *)

\* the placeholder tokens of a text, `?` and `$n`, in their order
RECURSIVE PlaceholderToks(_)
PlaceholderToks(text) ==
    IF text = <<>> THEN <<>>
    ELSE IF text[1].k \in {"q", "dollar"} THEN <<text[1]>> \o PlaceholderToks(Tail(text))
    ELSE PlaceholderToks(Tail(text))

\* C1: a top-level statement in the Dollar format that compiles returns a
\* text whose placeholders are exactly $1, $2, ..., $N from left to right,
\* N being the number of arguments returned, whatever is nested in it.
C1_DollarNumbering ==
    (out.op = "StmtToSql" /\ stmt.placeholderFormat = "Dollar" /\ out.res.err = NoErr) =>
        PlaceholderToks(out.res.sql) = [k \in 1..Len(out.res.args) |-> DollarTok(k)]

RECURSIVE ItemsMatch(_)
ItemsMatch(v) ==
    CASE v.kind \in {"expr", "sqlizer"} ->
            /\ Len(v.args) = CountQ(v.sql)
            /\ \A i \in DOMAIN v.args : ItemsMatch(v.args[i])
      [] v.kind \in {"part", "wherePart"} ->
            IF v.pred.kind = "string" THEN Len(v.args) = CountQ(v.pred.s)
            ELSE ItemsMatch(v.pred)
      [] v.kind = "select" ->
            /\ \A i \in DOMAIN v.columns : ItemsMatch(v.columns[i])
            /\ \A i \in DOMAIN v.whereParts : ItemsMatch(v.whereParts[i])
      [] v.kind = "alias" -> ItemsMatch(v.expr)
      [] v.kind \in {"and", "or"} -> \A i \in DOMAIN v.c : ItemsMatch(v.c[i])
      [] v.kind \in MapKinds -> \A k \in DOMAIN v.m : ItemsMatch(v.m[k])
      [] v.kind \in SliceKinds -> \A i \in DOMAIN v.slice : ItemsMatch(v.slice[i].value)
      [] OTHER -> TRUE

RECURSIVE Walk(_, _, _, _, _)
Walk(sql, items, pos, i, acc) ==
    IF pos > Len(sql) THEN acc
    ELSE IF sql[pos].k # "q"
    THEN Walk(sql, items, pos + 1, i, [acc EXCEPT !.sql = Cat(@, <<sql[pos]>>)])
    ELSE IF i > Len(items)
    THEN Walk(sql, items, pos + 1, i + 1, [acc EXCEPT !.sql = Cat(@, <<QTok>>)])
    ELSE IF IsSqlizer(items[i])
    THEN Walk(sql, items, pos + 1, i + 1,
              [sql |-> Cat(acc.sql, ToSql(items[i]).sql),
               args |-> acc.args \o ToSql(items[i]).args])
    ELSE Walk(sql, items, pos + 1, i + 1,
              [sql |-> Cat(acc.sql, <<QTok>>), args |-> Append(acc.args, items[i])])

\* C3: an Expr that compiles, given no more items than its template has
\* tokens, returns the text and the arguments of that walk.
C3_ExprWalk ==
    (/\ out.op = "FragToSql"
     /\ out.frag.kind = "expr"
     /\ out.res.err = NoErr
     /\ Len(out.frag.args) <= CountQ(out.frag.sql)) =>
        /\ out.res.sql = Walk(out.frag.sql, out.frag.args, 1, 1, [sql |-> <<>>, args |-> <<>>]).sql
        /\ out.res.args = Walk(out.frag.sql, out.frag.args, 1, 1, [sql |-> <<>>, args |-> <<>>]).args

\* v with every SelectBuilder in it carrying the Question format
RECURSIVE AsQuestion(_)
AsQuestion(v) ==
    CASE v.kind = "select" ->
            [v EXCEPT !.placeholderFormat = "Question",
                      !.columns = [i \in DOMAIN v.columns |-> AsQuestion(v.columns[i])],
                      !.whereParts = [i \in DOMAIN v.whereParts |-> AsQuestion(v.whereParts[i])]]
      [] v.kind \in {"part", "wherePart"} -> [v EXCEPT !.pred = AsQuestion(v.pred)]
      [] v.kind = "expr" -> [v EXCEPT !.args = [i \in DOMAIN v.args |-> AsQuestion(v.args[i])]]
      [] v.kind = "alias" -> [v EXCEPT !.expr = AsQuestion(v.expr)]
      [] v.kind \in {"and", "or"} -> [v EXCEPT !.c = [i \in DOMAIN v.c |-> AsQuestion(v.c[i])]]
      [] v.kind \in MapKinds -> [v EXCEPT !.m = [k \in DOMAIN v.m |-> AsQuestion(v.m[k])]]
      [] v.kind \in SliceKinds ->
            [v EXCEPT !.slice = [i \in DOMAIN v.slice |->
                                    columnValue(v.slice[i].column, AsQuestion(v.slice[i].value))]]
      [] OTHER -> v

\* the top-level statement b, every builder nested in it carrying the
\* Question format
NestedAsQuestion(b) ==
    IF b.kind = "select"
    THEN [b EXCEPT !.columns = [i \in DOMAIN b.columns |-> AsQuestion(b.columns[i])],
                   !.whereParts = [i \in DOMAIN b.whereParts |-> AsQuestion(b.whereParts[i])]]
    ELSE [b EXCEPT !.values = [r \in DOMAIN b.values |->
                                  [v \in DOMAIN b.values[r] |-> AsQuestion(b.values[r][v])]]]

\* C4: the placeholders are rewritten once, on the text of the top-level
\* statement: a nested SelectBuilder is compiled without rewriting wherever
\* it is embedded, so the result is what the statement gives when every
\* nested builder carries the Question format.
C4_RewrittenOnce ==
    out.op = "StmtToSql" => out.res = ToSql(NestedAsQuestion(stmt))

\* what a value of a Values(...) row gives: a fragment its compiled text and
\* arguments, any other value `?` and itself
CellText(v) == IF IsSqlizer(v) THEN ToSql(v).sql ELSE <<QTok>>
CellArgs(v) == IF IsSqlizer(v) THEN ToSql(v).args ELSE <<v>>

\* a row: its values comma-separated in parentheses
RowText(row) ==
    Cat(Cat(T("("), Join([v \in DOMAIN row |-> CellText(row[v])], T(","))), T(")"))
RowArgs(row) == Flatten([v \in DOMAIN row |-> CellArgs(row[v])])

\* the VALUES list: the rows in the order of the Values calls
ValuesText(values) == Join([r \in DOMAIN values |-> RowText(values[r])], T(","))
ValuesArgs(values) == Flatten([r \in DOMAIN values |-> RowArgs(values[r])])

CellsCompile(values) ==
    \A r \in DOMAIN values : \A v \in DOMAIN values[r] :
        IsSqlizer(values[r][v]) => ToSql(values[r][v]).err = NoErr

CellsMatch(values) ==
    \A r \in DOMAIN values : \A v \in DOMAIN values[r] : ItemsMatch(values[r][v])

\* an INSERT of the statement world with rows whose values all compile
InsertCompiled ==
    /\ out.op = "StmtToSql"
    /\ stmt.kind = "insert"
    /\ Len(stmt.values) > 0
    /\ CellsCompile(stmt.values)

C24_Verbatim ==
    (/\ out.op = "FragToSql"
     /\ out.frag.kind = "expr"
     /\ hasSqlizer(out.frag.args)
     /\ out.res.err = NoErr
     /\ Len(out.frag.args) <= CountQ(out.frag.sql)) =>
        out.res.sql = Walk(out.frag.sql, out.frag.args, 1, 1, [sql |-> <<>>, args |-> <<>>]).sql

IsInt(v) == v.kind = "int"

LikeOpr(kind) == IF kind \in {"ILikeOr", "ILikeOrSlice"} THEN " ILIKE " ELSE " LIKE "

LikeClause(kind, cv) ==
    [expr |-> <<Lit(cv.column \o LikeOpr(kind)), QTok>>, args |-> <<cv.value>>]

LikeRejected == "cannot use like with a slice or an array"

\* a text-match predicate of integers and nulls, one null at least
LikeWithNull ==
    /\ out.op = "ToSql"
    /\ pred.kind \in LikeFamily
    /\ \E i \in DOMAIN Visited : IsNull(Visited[i].value)
    /\ \A i \in DOMAIN Visited : IsNull(Visited[i].value) \/ IsInt(Visited[i].value)

\* C25, as first stated: in LikeOr and ILikeOr (map and slice), a pair whose
\* value is null compiles to `column IS NULL` with no argument and no error,
\* as in the rest of the equality family.
C25_LikeNullIsNull ==
    LikeWithNull =>
        LET want == [i \in DOMAIN Visited |->
                        IF IsNull(Visited[i].value) THEN NullClause(pred.kind, Visited[i])
                        ELSE LikeClause(pred.kind, Visited[i])]
        IN /\ out.res.err = NoErr
           /\ out.res.sql = Joined(pred.kind, want).sql
           /\ out.res.args = Joined(pred.kind, want).args

\* C25, amended: in LikeOr and ILikeOr (map and slice), a pair whose value
\* is null, directly or through a Valuer, is rejected: ToSql returns the
\* error "cannot use like with a slice or an array" and empty text; without
\* a null the integers compile to `column LIKE ?` (ILIKE) joined by OR.
C25_LikeNullRejected ==
    /\ LikeWithNull => (out.res.err = LikeRejected /\ out.res.sql = <<>>)
    /\ (/\ out.op = "ToSql"
        /\ pred.kind \in LikeFamily
        /\ \A i \in DOMAIN Visited : IsInt(Visited[i].value)) =>
           LET want == [i \in DOMAIN Visited |-> LikeClause(pred.kind, Visited[i])]
           IN /\ out.res.err = NoErr
              /\ out.res.sql = Join([i \in DOMAIN want |-> want[i].expr], T(" OR "))
              /\ out.res.args = Flatten([i \in DOMAIN want |-> want[i].args])

C25_Witness ==
    /\ LikeWithNull
    /\ pred.kind = "ILikeOrSlice"
    /\ calls = <<columnValue("name", IntV(1)), columnValue("id", Nil)>>
    /\ out.res.err = LikeRejected

\* C26: in an ordering predicate (Lt, LtOrEq, Gt, GtOrEq, map and slice) a
\* pair whose value is a SelectBuilder compiles to `column IN (<sub-select
\* text>)` with the sub-select's arguments at the pair's position; the
\* builder itself is never an argument.
C26_OrderingSubSelect ==
    (/\ out.op = "ToSql"
     /\ pred.kind \in OrderFamily
     /\ \E i \in DOMAIN Visited : Visited[i].value = SubSel
     /\ \A i \in DOMAIN Visited : Visited[i].value = SubSel \/ IsInt(Visited[i].value)) =>
        LET want == [i \in DOMAIN Visited |->
                        IF Visited[i].value = SubSel
                        THEN SubSelClause(pred.kind, Visited[i])
                        ELSE OrderClause(pred.kind, Visited[i])]
        IN /\ out.res.err = NoErr
           /\ out.res.sql = Joined(pred.kind, want).sql
           /\ out.res.args = Joined(pred.kind, want).args
           /\ \A i \in DOMAIN out.res.args : out.res.args[i].kind # "select"

\* And / Or whose members all compile, one of them at least to empty text
\* with arguments
EmptyMemberWithArgs ==
    /\ out.op = "ToSql"
    /\ pred.kind \in {"and", "or"}
    /\ AllMembersCompile
    /\ \E i \in DOMAIN MemberResults :
          MemberResults[i].sql = <<>> /\ MemberResults[i].args # <<>>

\* C27, as first stated: in And / Or a member whose text is empty and which
\* returned arguments is left out of the text, and its arguments are still
\* in the combinator's argument list, at the member's position.
C27_EmptyMemberArgsKept ==
    EmptyMemberWithArgs =>
        out.res.args = Flatten([i \in DOMAIN MemberResults |-> MemberResults[i].args])

\* C27, amended: in And / Or a member whose text is empty is left out with
\* its arguments: the arguments returned are those of the members that have
\* text, and none when no member has text.
C27_EmptyMemberDropped ==
    EmptyMemberWithArgs =>
        /\ out.res.args = Flatten([i \in DOMAIN Kept |-> Kept[i].args])
        /\ Len(out.res.args) <
              Len(Flatten([i \in DOMAIN MemberResults |-> MemberResults[i].args]))
        /\ Kept = <<>> => out.res = Result(<<>>, <<>>, NoErr)

C27_Witness ==
    /\ EmptyMemberWithArgs
    /\ pred = Or(<<Expr(<<>>, <<IntV(1)>>), Expr(<<Lit("b < "), QTok>>, <<IntV(20)>>)>>)
    /\ out.res = Result(<<Lit("(b < "), QTok, Lit(")")>>, <<IntV(20)>>, NoErr)

-----------------------------------------------------------------------------
(* The read world: a SelectBuilder or an InsertBuilder is built, and ToSql  *)
(* is called on it again and again, the placeholder format being changed    *)
(* in between.  stmt is the builder, calls the calls made on it, depth the  *)
(* number of ToSql calls since the last of them, out the last ToSql: its    *)
(* result, the builder it was called on and the ToSql before it.            *)

MaxReads == 3

ReadCalls(kind) ==
    IF kind = "select"
    THEN {Call("Prefix", "", <<Lit("WITH p AS "), QTok>>, <<IntV(0)>>, 0),
          Call("Prefix", "", <<Lit("WITH q AS ("), QTok, Lit(")")>>, <<SubSel>>, 0),
          Call("Columns", "b", <<>>, <<>>, 0),
          Call("Where", "", <<Lit("w1 = "), QTok>>, <<IntV(1)>>, 0),
          Call("Where", "", <<Lit("w2 IN ("), QTok, Lit(")")>>, <<SubSel>>, 0),
          Call("Limit", "", <<>>, <<>>, 4)}
    ELSE {Call("Columns", "a", <<>>, <<>>, 0),
          Call("Suffix", "", <<Lit("ON CONFLICT "), QTok>>,
               <<Expr(<<Lit("DO NOTHING")>>, <<>>)>>, 0),
          Call("Values", "", <<>>, <<IntV(1), SubSel>>, 0),
          Call("Values", "", <<>>, <<IntV(2), Expr(<<QTok, Lit(" + 5")>>, <<IntV(12)>>)>>, 0),
          Call("Suffix", "", <<Lit("RETURNING "), QTok>>, <<IntV(6)>>, 0)}

Read(b, res, prev) ==
    [op |-> "Read", res |-> res, format |-> b.placeholderFormat, builder |-> b,
     prev |-> prev]

\* Select() / Insert("t")
NewRead(kind) ==
    /\ stmt' = IF kind = "select" THEN Select(<<>>) ELSE Insert("t")
    /\ calls' = <<>>
    /\ depth' = 0
    /\ out' = NoOut
    /\ UNCHANGED <<pred, sub>>

ReadCall(c) ==
    /\ Len(calls) < MaxCalls
    /\ stmt' = BuilderCalled(stmt, c)
    /\ calls' = Append(calls, c)
    /\ depth' = 0
    /\ out' = NoOut
    /\ UNCHANGED <<pred, sub>>

\* b.PlaceholderFormat(f)
ReadFormat(f) ==
    /\ f # stmt.placeholderFormat
    /\ stmt' = IF stmt.kind = "select" THEN SelectBuilder_PlaceholderFormat(stmt, f)
               ELSE InsertBuilder_PlaceholderFormat(stmt, f)
    /\ UNCHANGED <<pred, calls, sub, depth, out>>

\* b.ToSql(): no field of b is assigned
ReadToSql ==
    /\ depth < MaxReads
    /\ out' = Read(stmt, ToSql(stmt),
                   IF out = NoOut THEN NoOut ELSE [res |-> out.res, format |-> out.format])
    /\ depth' = depth + 1
    /\ UNCHANGED <<pred, calls, sub, stmt>>

InitRead ==
    /\ pred = Ctor("New", "")
    /\ calls = <<>>
    /\ sub = Nil
    /\ depth = 0
    /\ stmt = Select(<<>>)
    /\ out = NoOut

NextRead ==
    \/ \E kind \in {"select", "insert"} : NewRead(kind)
    \/ \E c \in ReadCalls(stmt.kind) : ReadCall(c)
    \/ \E f \in Formats : ReadFormat(f)
    \/ ReadToSql

SpecRead == InitRead /\ [][NextRead]_vars

\* a text with every `$n` written back as `?`
Unnumbered(text) == [i \in DOMAIN text |-> IF text[i].k = "dollar" THEN QTok ELSE text[i]]

-----------------------------------------------------------------------------
(* The runner world again: statements that fail to compile *)

\* C29: when the statement fails to compile, Exec, Query, QueryRow and Scan
\* on a builder with a runner for the operation hand nothing to the driver,
\* and the caller gets the compile error.
C29_NoDriverCall ==
    (IsRun /\ out.compiled /\ ToSql(stmt).err # NoErr) =>
        /\ out.driver = <<>>
        /\ out.err = ToSql(stmt).err

-----------------------------------------------------------------------------
(* The read world again: the prefixes and suffixes of a statement *)

\* the texts and the arguments the Exprs es return from their own ToSql
OwnTexts(es) == Join([i \in DOMAIN es |-> ToSql(es[i]).sql], T(" "))
OwnArgs(es) == Flatten([i \in DOMAIN es |-> ToSql(es[i]).args])

\* the statement without its prefixes and suffixes, placeholders left as `?`
Bare == [stmt EXCEPT !.prefixes = <<>>, !.suffixes = <<>>, !.placeholderFormat = "Question"]

\* C30: an Expr given as a Prefix or a Suffix of a statement contributes the
\* text and the arguments its own ToSql returns, a fragment among its items
\* included: the statement's text is the prefixes' own texts, the statement
\* without them and the suffixes' own texts, space-separated, rewritten in
\* the statement's format, and its arguments are theirs in that order.
C30_ExprSameEverywhere ==
    (/\ out.op = "Read"
     /\ out.builder = stmt
     /\ ToSql(Bare).err = NoErr
     /\ \A i \in DOMAIN stmt.prefixes : ToSql(stmt.prefixes[i]).err = NoErr
     /\ \A i \in DOMAIN stmt.suffixes : ToSql(stmt.suffixes[i]).err = NoErr) =>
        /\ out.res.err = NoErr
        /\ out.res.sql =
              ReplacePlaceholders(stmt.placeholderFormat,
                  Cat(Cat(IF stmt.prefixes = <<>> THEN <<>>
                          ELSE Cat(OwnTexts(stmt.prefixes), T(" ")),
                          ToSql(Bare).sql),
                      IF stmt.suffixes = <<>> THEN <<>>
                      ELSE Cat(T(" "), OwnTexts(stmt.suffixes)))).sql
        /\ out.res.args = OwnArgs(stmt.prefixes) \o ToSql(Bare).args \o OwnArgs(stmt.suffixes)

=============================================================================
